---------------------------- MODULE Spec2Model ----------------------------
(***************************************************************************)
(* A model of the zone core (src/lib/zone.ts): the zone tree and its       *)
(* delegates, the task state machine with its reference counts, the        *)
(* zone-frame stack, and the microtask queue.                              *)
(*                                                                         *)
(* The program is single threaded but re-entrant: callbacks and hooks call *)
(* back into the zone API.  The model keeps an explicit call stack.  A     *)
(* frame is either a handler of the core that is waiting for user code it  *)
(* called (run, runTask, the invoke thunk, scheduleTask, the drain) or     *)
(* user code (a callback, an onScheduleTask hook).  The empty stack is the *)
(* host event loop.  Each action runs one handler from one call-out to the *)
(* next: the code between two call-outs is atomic in the program too.      *)
(***************************************************************************)
EXTENDS Integers, Sequences, FiniteSets, TLC

(***************************************************************************)
(* Bounds of the model.                                                    *)
(***************************************************************************)
MaxDepth == 4
MaxCalls == 3
MaxRunCount == 2
MaxQueue == 2
MaxNeg == 2
MaxFrames == 3
MaxArmed == 2
MaxTransitions == 1
MaxHookCalls == 5
MaxDrainCalls == 4
MaxDrainDepth == 7

(***************************************************************************)
(* The zone tree.  R is the root; A is forked from R, B from A, C from R.  *)
(***************************************************************************)
Root == "R"
Zones == {"R", "A", "B", "C"}
NoZone == "NO ZONE"
Null == "null"
DELEGATE_ZS == "DELEGATE_ZS"

ZoneParent(z) ==
    CASE z = "A" -> "R"
      [] z = "B" -> "A"
      [] z = "C" -> "R"
      [] z = "D" -> "B"
      [] OTHER -> Null

\* The tree with one more zone, D forked from B, three levels below the
\* root; the delegates of this tree are studied on their own (SpecDelegate).
DeepZones == Zones \cup {"D"}

Hooks == {"onFork", "onIntercept", "onInvoke", "onHandleError",
          "onScheduleTask", "onInvokeTask", "onCancelTask", "onHasTask"}

\* The ZoneSpec each zone was forked with: the set of hooks it defines.
DefaultZoneSpecs ==
    [z \in Zones |->
        CASE z = "A" -> {"onHasTask", "onHandleError"}
          [] z = "B" -> {"onScheduleTask", "onCancelTask"}
          [] z = "C" -> {"onInvoke", "onInvokeTask"}
          [] OTHER -> {}]

TaskTypes == {"microTask", "macroTask", "eventTask"}
TaskStates == {"notScheduled", "scheduling", "scheduled", "running",
               "canceling", "unknown"}
Tasks == {"t1", "t2"}
NoTask == "noTask"

VARIABLES
    zoneSpec,     \* zone -> set of hooks its ZoneSpec defines (fixed at fork)
    task,         \* task -> its fields (ZoneTask)
    counts,       \* delegate (zone) -> task type -> _taskCounts
    zoneFrames,   \* _currentZoneFrame, as the sequence of zones, bottom first
    currentTask,  \* _currentTask
    nested,       \* _numberOfNestedTaskFrames
    queue,        \* _microTaskQueue
    draining,     \* _isDrainingMicrotaskQueue
    armed,        \* drain triggers armed at the host and not yet fired
    stack,        \* the call stack
    ret,          \* the outcome of the call that has just completed
    trans,        \* the state transitions made by the last step
    calls,        \* the calls of the zone API made so far
    hist,         \* per task: how far a clean schedule/run sequence has got
    delta,        \* per task: counter changes made for it since scheduleTask
    fx,           \* the hasTask and handleError hook calls made by the last step
    order,        \* the microtasks enqueued and not yet taken by a drain, oldest first
    lim           \* the size of the run explored: calls and stack depth

vars == <<zoneSpec, task, counts, zoneFrames, currentTask, nested, queue,
          draining, armed, stack, ret, trans, calls, hist, delta, fx, order,
          lim>>

\* A faulty variant of the constructor's xxxZS that inherits nothing.
PlainZSOwnOnly(zs, h, z) ==
    IF z = Root THEN Null
    ELSE IF h \in zs[z] THEN z
    ELSE Null

(***************************************************************************)
(* ZoneDelegate.constructor: for each hook the delegate caches the spec    *)
(* that handles it (xxxZS), the delegate to hand to that hook (xxxDlgt)    *)
(* and the zone passed as currentZone (xxxCurrZone).  A spec is named by   *)
(* the zone that was forked with it.                                       *)
(***************************************************************************)
RECURSIVE PlainZS(_, _, _)
PlainZS(zs, h, z) ==
    IF z = Root THEN Null
    ELSE IF h \in zs[z] THEN z
    ELSE PlainZS(zs, h, ZoneParent(z))

RECURSIVE PlainDlgt(_, _, _)
PlainDlgt(zs, h, z) ==
    IF z = Root THEN Null
    ELSE IF h \in zs[z] THEN ZoneParent(z)
    ELSE PlainDlgt(zs, h, ZoneParent(z))

PlainCurrZone(zs, h, z) ==
    IF z = Root THEN Null
    ELSE IF h \in zs[z] THEN z
    ELSE ZoneParent(z)

\* A faulty variant of the constructor's onHasTask caching in which only the
\* zone whose own spec has the hook counts tasks.
HasTaskZSNotAmplified(zs, z) ==
    IF z = Root THEN Null
    ELSE IF "onHasTask" \in zs[z] THEN z
    ELSE Null

RECURSIVE HasTaskZS(_, _)
HasTaskZS(zs, z) ==
    IF z = Root THEN Null
    ELSE IF "onHasTask" \in zs[z] THEN z
    ELSE IF HasTaskZS(zs, ZoneParent(z)) # Null THEN DELEGATE_ZS
    ELSE Null

HasTaskDlgt(zs, z) == IF HasTaskZS(zs, z) # Null THEN ZoneParent(z) ELSE Null

HasTaskDlgtOwner(zs, z) == IF HasTaskZS(zs, z) # Null THEN z ELSE Null

HasTaskCurrZone(zs, z) == IF HasTaskZS(zs, z) # Null THEN z ELSE Null

\* The three task hooks are forced through this delegate when it counts tasks.
TaskHookZS(zs, h, z) ==
    IF HasTaskZS(zs, z) # Null /\ h \notin zs[z] THEN DELEGATE_ZS
    ELSE PlainZS(zs, h, z)

TaskHookDlgt(zs, h, z) ==
    IF HasTaskZS(zs, z) # Null /\ h \notin zs[z] THEN ZoneParent(z)
    ELSE PlainDlgt(zs, h, z)

TaskHookCurrZone(zs, h, z) ==
    IF HasTaskZS(zs, z) # Null /\ h \notin zs[z] THEN z
    ELSE PlainCurrZone(zs, h, z)

TaskHooks == {"onScheduleTask", "onInvokeTask", "onCancelTask"}

\* The triple of delegate z for hook h as the constructor leaves it.
HookZS(zs, h, z) ==
    IF h = "onHasTask" THEN HasTaskZS(zs, z)
    ELSE IF h \in TaskHooks THEN TaskHookZS(zs, h, z)
    ELSE PlainZS(zs, h, z)

HookDlgt(zs, h, z) ==
    IF h = "onHasTask" THEN HasTaskDlgt(zs, z)
    ELSE IF h \in TaskHooks THEN TaskHookDlgt(zs, h, z)
    ELSE PlainDlgt(zs, h, z)

HookCurrZone(zs, h, z) ==
    IF h = "onHasTask" THEN HasTaskCurrZone(zs, z)
    ELSE IF h \in TaskHooks THEN TaskHookCurrZone(zs, h, z)
    ELSE PlainCurrZone(zs, h, z)

\* The call of a user hook: the zone whose spec has the hook, and the
\* parentZoneDelegate, currentZone and targetZone arguments; spec is Null
\* when the default action is taken instead.
H0 == [ev |-> Null, spec |-> Null, dlgt |-> Null, curr |-> Null, target |-> Null]

\* The method of delegate d for hook h, called with targetZone target, down
\* to the user hook it calls: DELEGATE_ZS forwards to the delegate it is
\* handed, with the same target.  ZoneDelegate.fork passes this.zone as
\* currentZone; every other method passes the cached xxxCurrZone.
RECURSIVE Dispatch(_, _, _, _)
Dispatch(zs, h, d, target) ==
    LET s == HookZS(zs, h, d)
    IN  IF s = Null THEN [H0 EXCEPT !.ev = h, !.target = target]
        ELSE IF s = DELEGATE_ZS
        THEN Dispatch(zs, h, HookDlgt(zs, h, d), target)
        ELSE [H0 EXCEPT !.ev = h, !.spec = s, !.dlgt = HookDlgt(zs, h, d),
                        !.curr = IF h = "onFork" THEN d
                                 ELSE HookCurrZone(zs, h, d),
                        !.target = target]

(***************************************************************************)
(* Delegate dispatch.  User hooks other than onScheduleTask are atomic:    *)
(* such a hook forwards to the parent delegate ("delegate"), returns       *)
(* without forwarding ("skip") or throws ("throw"); hk is its choice.      *)
(* onHandleError returns the Boolean he.                                   *)
(***************************************************************************)
HookChoices == {"delegate", "skip", "throw"}

\* A faulty variant of handleError whose default is false.
HandleErrorDefaultFalse(zs, z, he) ==
    IF PlainZS(zs, "onHandleError", z) # Null THEN he ELSE FALSE

\* ZoneDelegate.handleError: the hook's answer, or true when no spec has it.
HandleError(zs, z, he) ==
    IF PlainZS(zs, "onHandleError", z) # Null THEN he ELSE TRUE

\* ZoneDelegate.invoke: "callback" when the callback is reached.
RECURSIVE InvokeResolve(_, _, _)
InvokeResolve(zs, d, hk) ==
    IF PlainZS(zs, "onInvoke", d) = Null THEN "callback"
    ELSE IF hk = "delegate" THEN InvokeResolve(zs, PlainDlgt(zs, "onInvoke", d), hk)
    ELSE hk

\* ZoneDelegate.invokeTask: "callback" when task.callback is reached.
RECURSIVE InvokeTaskResolve(_, _, _)
InvokeTaskResolve(zs, d, hk) ==
    LET s == TaskHookZS(zs, "onInvokeTask", d)
    IN  IF s = Null THEN "callback"
        ELSE IF s = DELEGATE_ZS \/ hk = "delegate"
             THEN InvokeTaskResolve(zs, TaskHookDlgt(zs, "onInvokeTask", d), hk)
        ELSE hk

\* A faulty variant of the delegate's cancelTask that never reaches a hook
\* or cancelFn and returns.
CancelResolveSkips(zs, d, hk) == "skip"

\* ZoneDelegate.cancelTask: "default" when task.cancelFn is reached.
RECURSIVE CancelResolve(_, _, _)
CancelResolve(zs, d, hk) ==
    LET s == TaskHookZS(zs, "onCancelTask", d)
    IN  IF s = Null THEN "default"
        ELSE IF s = DELEGATE_ZS \/ hk = "delegate"
             THEN CancelResolve(zs, TaskHookDlgt(zs, "onCancelTask", d), hk)
        ELSE hk

\* ZoneDelegate.scheduleTask down to the first user hook or the default
\* action: the delegates pushed on task._zoneDelegates on the way, and where
\* the walk ends.
RECURSIVE SchedResolve(_, _, _)
SchedResolve(zs, d, acc) ==
    LET s == TaskHookZS(zs, "onScheduleTask", d)
        acc2 == IF HasTaskZS(zs, d) # Null
                THEN Append(acc, HasTaskDlgtOwner(zs, d)) ELSE acc
    IN  IF s = Null
        THEN [pushes |-> acc, end |-> "default", hook |-> Null, dlgt |-> Null]
        ELSE IF s = DELEGATE_ZS
        THEN SchedResolve(zs, TaskHookDlgt(zs, "onScheduleTask", d), acc2)
        ELSE [pushes |-> acc2, end |-> "hook", hook |-> s,
              dlgt |-> TaskHookDlgt(zs, "onScheduleTask", d)]

(***************************************************************************)
(* Tasks.  _zoneDelegates is null (live = FALSE) or a list; tag names the  *)
(* scheduleTask frame that created the list, which is what the identity    *)
(* test of Zone.scheduleTask compares.                                     *)
(***************************************************************************)
NullList == [live |-> FALSE, tag |-> 0, items |-> <<>>]

NewTask(type, hasData, isPeriodic, scheduleFn, cancelFn) ==
    [type |-> type, hasData |-> hasData, isPeriodic |-> isPeriodic,
     scheduleFn |-> scheduleFn, cancelFn |-> cancelFn,
     state |-> "notScheduled", zone |-> NoZone, runCount |-> 0,
     zd |-> NullList]

\* The tasks the callers construct (Zone.scheduleMicroTask, scheduleMacroTask
\* and scheduleEventTask build them with new ZoneTask).
TaskShapes ==
    { NewTask("microTask", FALSE, FALSE, FALSE, FALSE),
      NewTask("macroTask", TRUE, FALSE, TRUE, TRUE),
      NewTask("macroTask", FALSE, FALSE, TRUE, TRUE),
      NewTask("macroTask", TRUE, TRUE, TRUE, TRUE),
      NewTask("eventTask", FALSE, FALSE, TRUE, TRUE) }

\* The second task is one of the two tasks that run once.
OneShotShapes ==
    { NewTask("microTask", FALSE, FALSE, FALSE, FALSE),
      NewTask("macroTask", TRUE, FALSE, TRUE, TRUE) }

\* Faulty variants of _transitionTo, which the properties must tell from it:
\* one that lets a task leave unknown, one that does not test the current
\* state, one that assigns the state before it tests.
TransitionToFromUnknown(tk, toState, fromState1, fromState2) ==
    IF tk.state = fromState1 \/ tk.state = fromState2 \/ tk.state = "unknown"
    THEN [ok |-> TRUE,
          tk |-> [tk EXCEPT !.state = toState,
                            !.zd = IF toState = "notScheduled" THEN NullList ELSE @],
          msg |-> [to |-> Null, from1 |-> Null, from2 |-> Null, was |-> Null]]
    ELSE [ok |-> FALSE, tk |-> tk,
          msg |-> [to |-> toState, from1 |-> fromState1, from2 |-> fromState2,
                   was |-> tk.state]]

TransitionToUntested(tk, toState, fromState1, fromState2) ==
    [ok |-> TRUE,
     tk |-> [tk EXCEPT !.state = toState,
                       !.zd = IF toState = "notScheduled" THEN NullList ELSE @],
     msg |-> [to |-> Null, from1 |-> Null, from2 |-> Null, was |-> Null]]

TransitionToAssignFirst(tk, toState, fromState1, fromState2) ==
    [ok |-> tk.state = fromState1 \/ tk.state = fromState2,
     tk |-> [tk EXCEPT !.state = toState,
                       !.zd = IF toState = "notScheduled" THEN NullList ELSE @],
     msg |-> [to |-> toState, from1 |-> fromState1, from2 |-> fromState2,
              was |-> tk.state]]

\* ZoneTask._transitionTo(toState, fromState1, fromState2).
TransitionTo(tk, toState, fromState1, fromState2) ==
    IF tk.state = fromState1 \/ tk.state = fromState2
    THEN [ok |-> TRUE,
          tk |-> [tk EXCEPT !.state = toState,
                            !.zd = IF toState = "notScheduled" THEN NullList ELSE @],
          msg |-> [to |-> Null, from1 |-> Null, from2 |-> Null, was |-> Null]]
    ELSE [ok |-> FALSE, tk |-> tk,
          msg |-> [to |-> toState, from1 |-> fromState1, from2 |-> fromState2,
                   was |-> tk.state]]

\* A call of a hook that the core makes on its own account: ev is "hasTask"
\* (z the delegate's zone, then the HasTaskState handed over, and the counter
\* before and after) or "handleError" (z the target zone, err the error, res
\* the answer).
E0 == [ev |-> Null, z |-> Null, change |-> Null, microTask |-> FALSE,
       macroTask |-> FALSE, eventTask |-> FALSE, prev |-> 0, next |-> 0,
       err |-> Null, res |-> FALSE]

\* The isEmpty snapshot of ZoneDelegate._updateTaskCount, built from the
\* counters cs of delegate d after the assignment.
HasTaskState(cs, d, type, prev) ==
    [E0 EXCEPT !.ev = "hasTask", !.z = d, !.change = type,
               !.microTask = cs[d]["microTask"] > 0,
               !.macroTask = cs[d]["macroTask"] > 0,
               !.eventTask = cs[d]["eventTask"] > 0,
               !.prev = prev, !.next = cs[d][type]]

HandleErrorCall(z, err, res) ==
    [E0 EXCEPT !.ev = "handleError", !.z = z, !.err = err, !.res = res]

\* A faulty variant of the delegate's _updateTaskCount that counts but never
\* calls hasTask.
DelegateUpdateTaskCountSilent(cs, d, type, count) ==
    [cs |-> [cs EXCEPT ![d][type] = @ + count],
     threw |-> cs[d][type] + count < 0, fire |-> FALSE, note |-> E0]

\* A faulty variant of the delegate's _updateTaskCount that drops decrements.
DelegateUpdateTaskCountUpOnly(cs, d, type, count) ==
    [cs |-> IF count > 0 THEN [cs EXCEPT ![d][type] = @ + count] ELSE cs,
     threw |-> FALSE, fire |-> FALSE, note |-> E0]

\* ZoneDelegate._updateTaskCount(type, count) on delegate d: the counter is
\* assigned before the sign test.
DelegateUpdateTaskCount(cs, d, type, count) ==
    LET prev == cs[d][type]
        next == prev + count
        cs2 == [cs EXCEPT ![d][type] = next]
    IN  [cs |-> cs2, threw |-> next < 0,
         fire |-> next >= 0 /\ (prev = 0 \/ next = 0),
         note |-> HasTaskState(cs2, d, type, prev)]

\* A spec whose onHasTask hook throws carries this mark besides the hook.
ThrowingOnHasTask == "onHasTask throws"

HasTaskError == "onHasTask error"

\* A faulty variant in which DELEGATE_ZS swallows the notification instead of
\* handing it to the parent delegate.
HasTaskHookNotForwarded(zs, d) ==
    IF HasTaskZS(zs, d) = DELEGATE_ZS THEN Null ELSE HasTaskZS(zs, d)

\* The spec whose onHasTask hook ZoneDelegate.hasTask of delegate d reaches:
\* DELEGATE_ZS hands the call to the parent delegate.
RECURSIVE HasTaskHook(_, _)
HasTaskHook(zs, d) ==
    IF HasTaskZS(zs, d) = DELEGATE_ZS THEN HasTaskHook(zs, HasTaskDlgt(zs, d))
    ELSE HasTaskZS(zs, d)

\* A faulty variant of ZoneDelegate.hasTask without the try/catch.
HasTaskUncaught(zs, note) ==
    [calls |-> <<note>>,
     threw |-> /\ HasTaskHook(zs, note.z) # Null
               /\ ThrowingOnHasTask \in zs[HasTaskHook(zs, note.z)]]

\* ZoneDelegate.hasTask(this.zone, isEmpty) as _updateTaskCount calls it on
\* delegate note.z: an error of the hook is caught by the delegate of the
\* defining zone (change names it) and handed to its handleError with the
\* same target, and the answer of handleError is dropped.
HasTask(zs, note) ==
    [calls |-> IF /\ HasTaskHook(zs, note.z) # Null
                  /\ ThrowingOnHasTask \in zs[HasTaskHook(zs, note.z)]
               THEN <<note, [E0 EXCEPT !.ev = "handleError", !.z = note.z,
                                       !.err = HasTaskError,
                                       !.change = HasTaskHook(zs, note.z)]>>
               ELSE <<note>>,
     threw |-> FALSE]

\* The loop of Zone._updateTaskCount over the delegates of the list.
RECURSIVE CountLoop(_, _, _, _, _, _)
CountLoop(cs, items, i, type, count, notes) ==
    IF i > Len(items) THEN [cs |-> cs, threw |-> FALSE, notes |-> notes]
    ELSE LET u == DelegateUpdateTaskCount(cs, items[i], type, count)
             h == HasTask(zoneSpec, u.note)
             n2 == IF u.fire THEN notes \o h.calls ELSE notes
         IN  IF u.threw \/ (u.fire /\ h.threw)
             THEN [cs |-> u.cs, threw |-> TRUE, notes |-> n2]
             ELSE CountLoop(u.cs, items, i + 1, type, count, n2)

\* Zone._updateTaskCount(task, count).
ZoneUpdateTaskCount(tk, cs, count) ==
    IF ~tk.zd.live
    THEN [tk |-> tk, cs |-> cs, err |-> "TypeError", notes |-> <<>>]
    ELSE LET loop == CountLoop(cs, tk.zd.items, 1, tk.type, count, <<>>)
         IN  [tk |-> IF count = -1 THEN [tk EXCEPT !.zd = NullList] ELSE tk,
              cs |-> loop.cs,
              err |-> IF loop.threw THEN "More tasks executed then were scheduled."
                      ELSE Null,
              notes |-> loop.notes]

\* Zone.scheduleTask's walk from the new zone up to the root, looking for the
\* task's zone.
RECURSIVE FoundOnPath(_, _)
FoundOnPath(newZone, tz) ==
    IF newZone = Null THEN FALSE
    ELSE IF newZone = tz THEN TRUE
    ELSE FoundOnPath(ZoneParent(newZone), tz)

\* A faulty variant of the descendant check that rejects every zone other
\* than the task's.
RescheduleRejectedElsewhere(z, tz) == tz # NoZone /\ tz # z

\* A faulty variant of the descendant check that also rejects the same zone.
RescheduleRejectedSameZone(z, tz) == tz # NoZone /\ FoundOnPath(z, tz)

RescheduleRejected(z, tz) == tz # NoZone /\ tz # z /\ FoundOnPath(z, tz)

\* Faulty variants of the unwind: one that treats every task as repeating,
\* one that treats every task as running once.
RunTaskUnwindRepeating(tk, cs, reEntryGuard) ==
    IF tk.state = "notScheduled" \/ tk.state = "unknown" \/ ~reEntryGuard
    THEN [tk |-> tk, cs |-> cs, err |-> Null, notes |-> <<>>]
    ELSE [tk |-> [tk EXCEPT !.state = "scheduled"], cs |-> cs, err |-> Null,
          notes |-> <<>>]

RunTaskUnwindOnce(tk, cs, reEntryGuard) ==
    IF tk.state = "notScheduled" \/ tk.state = "unknown"
    THEN [tk |-> tk, cs |-> cs, err |-> Null, notes |-> <<>>]
    ELSE LET u == ZoneUpdateTaskCount([tk EXCEPT !.runCount = 0], cs, -1)
         IN  [tk |-> [u.tk EXCEPT !.state = "notScheduled", !.zd = NullList],
              cs |-> u.cs, err |-> u.err, notes |-> u.notes]

\* A faulty variant of the unwind that leaves runCount of a one-shot task
\* as the run left it.
RunTaskUnwindKeepsRunCount(tk, cs, reEntryGuard) ==
    IF tk.state = "notScheduled" \/ tk.state = "unknown"
    THEN [tk |-> tk, cs |-> cs, err |-> Null, notes |-> <<>>]
    ELSE IF tk.type = "eventTask" \/ (tk.hasData /\ tk.isPeriodic)
    THEN [tk |-> [tk EXCEPT !.state = "scheduled"], cs |-> cs, err |-> Null,
          notes |-> <<>>]
    ELSE LET u == ZoneUpdateTaskCount(tk, cs, -1)
         IN  [tk |-> [u.tk EXCEPT !.state = "notScheduled"],
              cs |-> u.cs, err |-> u.err, notes |-> u.notes]

\* A faulty variant of the unwind that does not look at the state the
\* callback left the task in.
RunTaskUnwindWhateverState(tk, cs, reEntryGuard) ==
    IF tk.type = "eventTask" \/ (tk.hasData /\ tk.isPeriodic)
    THEN [tk |-> [tk EXCEPT !.state = "scheduled"], cs |-> cs, err |-> Null,
          notes |-> <<>>]
    ELSE [tk |-> [tk EXCEPT !.state = "notScheduled", !.runCount = 0],
          cs |-> [d \in Zones |->
                     IF FoundOnPath(tk.zone, d)
                     THEN [cs[d] EXCEPT ![tk.type] = @ - 1] ELSE cs[d]],
          err |-> Null, notes |-> <<>>]

\* The zone test at the entry of Zone.runTask, and a faulty variant without it.
CreationZoneNotTested(tk, z) == FALSE

CreationZoneMismatch(tk, z) == tk.zone # z

\* The unwind (finally) of Zone.runTask up to the restore of the frame.
RunTaskUnwind(tk, cs, reEntryGuard) ==
    IF tk.state = "notScheduled" \/ tk.state = "unknown"
    THEN [tk |-> tk, cs |-> cs, err |-> Null, notes |-> <<>>]
    ELSE IF tk.type = "eventTask" \/ (tk.hasData /\ tk.isPeriodic)
    THEN IF ~reEntryGuard THEN [tk |-> tk, cs |-> cs, err |-> Null, notes |-> <<>>]
         ELSE LET tr == TransitionTo(tk, "scheduled", "running", Null)
              IN  [tk |-> tr.tk, cs |-> cs,
                   err |-> IF tr.ok THEN Null ELSE "transition", notes |-> <<>>]
    ELSE LET u == ZoneUpdateTaskCount([tk EXCEPT !.runCount = 0], cs, -1)
         IN  IF u.err # Null \/ ~reEntryGuard THEN u
             ELSE LET tr == TransitionTo(u.tk, "notScheduled", "running",
                                         "notScheduled")
                  IN  [tk |-> tr.tk, cs |-> u.cs,
                       err |-> IF tr.ok THEN Null ELSE "transition",
                       notes |-> u.notes]

(***************************************************************************)
(* The call stack and the outcome of the last completed call.              *)
(***************************************************************************)
\* ret: kind is "none", "return" or "throw"; from names the call that
\* completed; val is the task a scheduling returned; ezf and ect are the
\* zone-frame stack and the current task when the call was entered; h tells
\* whether the call was one step of a clean schedule/run/cancel sequence.
R0 == [kind |-> "none", from |-> Null, z |-> Null, t |-> NoTask, err |-> Null,
       val |-> NoTask, ezf |-> <<>>, ect |-> NoTask, h |-> Null]

Returned(from, z, t) ==
    [R0 EXCEPT !.kind = "return", !.from = from, !.z = z, !.t = t]

Thrown(from, z, t, err) ==
    [R0 EXCEPT !.kind = "throw", !.from = from, !.z = z, !.t = t, !.err = err]

\* A frame: op names the handler or the user code; z and t are its zone and
\* task; guard is runTask's reEntryGuard; prev its previousTask; tag the
\* zoneDelegates list of scheduleTask; dl the parent delegate handed to a
\* hook; q and i the local queue and index of the drain; saved the outcome
\* the invoke thunk returns after the drain.
F0 == [op |-> Null, pc |-> Null, z |-> Null, target |-> Null, t |-> NoTask,
       guard |-> FALSE, prev |-> NoTask, tag |-> 0, dl |-> Null,
       ezf |-> <<>>, ect |-> NoTask, q |-> <<>>, i |-> 0, saved |-> R0]

\* _api.microtaskDrainDone is a no-op (noop) until a patch replaces it; the
\* root entry of zoneSpec carries this mark when a patch has.
DrainDonePatched == "microtaskDrainDone patched"

DrainDoneHook == "microtaskDrainDone"

UserOps == {"callback", "onScheduleTask", DrainDoneHook}

\* The running frame; the host event loop when the stack is empty.
Top == IF stack = <<>> THEN F0 ELSE stack[Len(stack)]

Pop(stk) == SubSeq(stk, 1, Len(stk) - 1)

\* User code (or the host) is running and no outcome is pending.
AtUser == ret.kind = "none" /\ (stack = <<>> \/ Top.op \in UserOps)

\* User code may make one more call that pushes need frames.
CanCall(need) ==
    /\ AtUser
    /\ calls < lim.calls
    /\ Len(stack) + need <= lim.depth
    /\ \A d \in Zones : \A ty \in TaskTypes : counts[d][ty] > -MaxNeg

\* One more call of the zone API has been made.
Called == calls' = calls + 1

\* delta after the counters became cs2 on behalf of task t.
DeltaAfter(t, cs2) ==
    [delta EXCEPT ![t] =
        [d \in Zones |-> @[d] + cs2[d][task[t].type] - counts[d][task[t].type]]]

ZeroDelta == [d \in Zones |-> 0]

Init ==
    /\ zoneSpec = DefaultZoneSpecs
    /\ task \in {f \in [Tasks -> TaskShapes] : f["t2"] \in OneShotShapes}
    /\ counts = [d \in Zones |-> [ty \in TaskTypes |-> 0]]
    /\ zoneFrames = <<Root>>
    /\ currentTask = NoTask
    /\ nested = 0
    /\ queue = <<>>
    /\ draining = FALSE
    /\ armed = 0
    /\ stack = <<>>
    /\ ret = R0
    /\ trans = <<>>
    /\ calls = 0
    /\ hist = [t \in Tasks |-> "none"]
    /\ delta = [t \in Tasks |-> ZeroDelta]
    /\ fx = <<>>
    /\ order = <<>>
    /\ lim = [calls |-> MaxCalls, depth |-> MaxDepth]

(***************************************************************************)
(* Zone.run and Zone.runGuarded.                                           *)
(***************************************************************************)
\* The call: push the zone frame and dispatch through the onInvoke chain.
CallRun(z, guarded) ==
    /\ CanCall(2)
    /\ Len(zoneFrames) < MaxFrames
    /\ \E hk \in HookChoices :
          LET r == InvokeResolve(zoneSpec, z, hk)
              f == [F0 EXCEPT !.op = IF guarded THEN "runGuarded" ELSE "run",
                              !.z = z, !.ezf = zoneFrames, !.ect = currentTask]
          IN  IF r = "callback"
              THEN /\ stack' = stack \o <<f, [F0 EXCEPT !.op = "callback"]>>
                   /\ ret' = R0
              ELSE /\ stack' = Append(stack, f)
                   /\ ret' = IF r = "throw" THEN Thrown("hook", z, NoTask, "user")
                             ELSE Returned("hook", z, NoTask)
    /\ zoneFrames' = Append(zoneFrames, z)
    /\ trans' = <<>>
    /\ UNCHANGED <<zoneSpec, lim, order, task, counts, currentTask, nested, queue, draining,
                   armed, hist, delta>>
    /\ Called
    /\ fx' = <<>>

\* Faulty variants of the rethrow test: one that guards run as well, one
\* that never rethrows.
RunRethrowsIfHandled(guarded, handled) == handled

RunRethrowsNever(guarded, handled) == FALSE

\* Whether a caught error leaves the call: run has no catch clause and always
\* rethrows, runGuarded rethrows when handleError answered true.
RunRethrows(guarded, handled) == ~guarded \/ handled

\* The rest of run/runGuarded once the callback has returned or thrown.
RunAfterInvoke ==
    /\ stack # <<>>
    /\ Top.op \in {"run", "runGuarded"}
    /\ ret.kind # "none"
    /\ \E he \in BOOLEAN :
          LET rethrow == /\ ret.kind = "throw"
                         /\ RunRethrows(Top.op = "runGuarded",
                                        HandleError(zoneSpec, Top.z, he))
          IN  /\ ret' = [(IF rethrow THEN Thrown(Top.op, Top.z, NoTask, ret.err)
                          ELSE Returned(Top.op, Top.z, NoTask))
                         EXCEPT !.ezf = Top.ezf, !.ect = Top.ect]
              /\ fx' = IF ret.kind = "throw" /\ Top.op = "runGuarded"
                       THEN <<HandleErrorCall(Top.z, ret.err,
                                              HandleError(zoneSpec, Top.z, he))>>
                       ELSE <<>>
    /\ zoneFrames' = Pop(zoneFrames)
    /\ stack' = Pop(stack)
    /\ trans' = <<>>
    /\ UNCHANGED <<zoneSpec, lim, order, task, counts, currentTask, nested, queue, draining,
                   armed, hist, delta>>
    /\ UNCHANGED calls

(***************************************************************************)
(* User code: returning, throwing, and taking the outcome of a call.       *)
(***************************************************************************)
\* A callback returns; an onScheduleTask hook returns rv (NoTask: undefined).
UserReturn(rv) ==
    /\ AtUser
    /\ stack # <<>>
    /\ rv # NoTask => Top.op = "onScheduleTask"
    /\ ret' = [Returned(Top.op, Top.z, Top.t) EXCEPT !.val = rv]
    /\ stack' = Pop(stack)
    /\ trans' = <<>>
    /\ UNCHANGED <<zoneSpec, lim, order, task, counts, zoneFrames, currentTask, nested, queue,
                   draining, armed, hist, delta>>
    /\ UNCHANGED calls
    /\ fx' = <<>>

\* User code throws an error of its own.
UserThrow ==
    /\ AtUser
    /\ stack # <<>>
    /\ Top.op # DrainDoneHook
    /\ ret' = Thrown(Top.op, Top.z, Top.t, "user")
    /\ stack' = Pop(stack)
    /\ trans' = <<>>
    /\ UNCHANGED <<zoneSpec, lim, order, task, counts, zoneFrames, currentTask, nested, queue,
                   draining, armed, hist, delta>>
    /\ UNCHANGED calls
    /\ fx' = <<>>

\* User code (or the host) takes the outcome of the call it made and goes on:
\* a returned value is dropped, a thrown error is caught.
UserResume ==
    /\ ret.kind # "none"
    /\ stack = <<>> \/ Top.op \in UserOps
    /\ ret' = R0
    /\ trans' = <<>>
    /\ UNCHANGED <<zoneSpec, lim, order, task, counts, zoneFrames, currentTask, nested, queue,
                   draining, armed, stack, hist, delta>>
    /\ UNCHANGED calls
    /\ fx' = <<>>

\* User code does not catch the error thrown by the call it made.
UserPropagate ==
    /\ ret.kind = "throw"
    /\ stack # <<>>
    /\ Top.op \in UserOps
    /\ Top.op # DrainDoneHook
    /\ ret' = Thrown(Top.op, Top.z, Top.t, ret.err)
    /\ stack' = Pop(stack)
    /\ trans' = <<>>
    /\ UNCHANGED <<zoneSpec, lim, order, task, counts, zoneFrames, currentTask, nested, queue,
                   draining, armed, hist, delta>>
    /\ UNCHANGED calls
    /\ fx' = <<>>

(***************************************************************************)
(* Zone.runTask.                                                           *)
(***************************************************************************)
\* runTask ends before anything is pushed: out is its outcome.  tf is the
\* task table the caller hands over (the invoke thunk has already counted
\* the run in it).
RunTaskImmediate(out, t, base, tf) ==
    /\ task' = tf
    /\ stack' = base
    /\ ret' = [out EXCEPT !.ezf = zoneFrames, !.ect = currentTask]
    /\ trans' = <<>>
    /\ hist' = IF tf # task THEN [hist EXCEPT ![t] = "none"] ELSE hist
    /\ UNCHANGED <<zoneFrames, currentTask>>

\* A faulty variant of runTask without the early-out.
EarlyOutNever(tk) == FALSE

\* The early-out of runTask: an eventTask that was cancelled between the
\* firing of the event and its dispatch.
EarlyOut(tk) == tk.state = "notScheduled" /\ tk.type = "eventTask"

\* runTask from its entry to the call of the callback.
RunTaskEnter(z, t, base, tf) ==
    LET tk == tf[t]
        reEntryGuard == tk.state # "running"
        tr == TransitionTo(tk, "running", "scheduled", Null)
    IN  IF CreationZoneMismatch(tk, z)
        THEN RunTaskImmediate(Thrown("runTask", z, t, "creationZone"), t, base, tf)
        ELSE IF EarlyOut(tk)
        THEN RunTaskImmediate(Returned("runTask", z, t), t, base, tf)
        ELSE IF reEntryGuard /\ ~tr.ok
        THEN RunTaskImmediate(Thrown("runTask", z, t, "transition"), t, base, tf)
        ELSE
          /\ \E hk \in HookChoices :
                LET r == InvokeTaskResolve(zoneSpec, z, hk)
                    f == [F0 EXCEPT !.op = "runTask", !.z = z, !.t = t,
                                    !.guard = reEntryGuard, !.prev = currentTask,
                                    !.ezf = zoneFrames, !.ect = currentTask]
                IN  IF r = "callback"
                    THEN /\ stack' = base \o <<f, [F0 EXCEPT !.op = "callback",
                                                             !.z = z, !.t = t]>>
                         /\ ret' = R0
                    ELSE /\ stack' = Append(base, f)
                         /\ ret' = IF r = "throw" THEN Thrown("hook", z, t, "user")
                                   ELSE Returned("hook", z, t)
          /\ task' = [tf EXCEPT ![t] =
                        [(IF reEntryGuard THEN tr.tk ELSE tk) EXCEPT
                            !.runCount = @ + 1,
                            !.cancelFn = IF tk.type = "macroTask" /\ tk.hasData
                                            /\ ~tk.isPeriodic
                                         THEN FALSE ELSE @]]
          /\ currentTask' = t
          /\ zoneFrames' = Append(zoneFrames, z)
          /\ trans' = IF reEntryGuard THEN << <<t, tk.state, "running">> >> ELSE <<>>
          /\ hist' = [hist EXCEPT ![t] =
                        IF hist[t] \in {"sched", "ran"} /\ tk.state = "scheduled"
                        THEN "run" ELSE "none"]

CallRunTask(z, t) ==
    /\ CanCall(2)
    /\ task[t].runCount < MaxRunCount
    /\ Len(zoneFrames) < MaxFrames
    /\ RunTaskEnter(z, t, stack, task)
    /\ UNCHANGED <<zoneSpec, lim, order, counts, nested, queue, draining, armed, delta>>
    /\ Called
    /\ fx' = <<>>

\* The rest of runTask once the callback has returned or thrown: the catch
\* and the finally block.
RunTaskAfterInvoke ==
    /\ stack # <<>>
    /\ Top.op = "runTask"
    /\ ret.kind # "none"
    /\ \E he \in BOOLEAN :
          LET t == Top.t
              rethrow == ret.kind = "throw" /\ HandleError(zoneSpec, Top.z, he)
              u == RunTaskUnwind(task[t], counts, Top.guard)
              clean == hist[t] = "run"
              out == IF u.err # Null THEN Thrown("runTask", Top.z, t, u.err)
                     ELSE IF rethrow THEN Thrown("runTask", Top.z, t, ret.err)
                     ELSE Returned("runTask", Top.z, t)
          IN  /\ task' = [task EXCEPT ![t] = u.tk]
              /\ counts' = u.cs
              /\ delta' = DeltaAfter(t, u.cs)
              /\ zoneFrames' = IF u.err # Null THEN zoneFrames ELSE Pop(zoneFrames)
              /\ currentTask' = IF u.err # Null THEN currentTask ELSE Top.prev
              /\ ret' = [out EXCEPT !.ezf = Top.ezf, !.ect = Top.ect,
                                    !.h = IF clean THEN "clean" ELSE Null]
              /\ trans' = IF u.tk.state # task[t].state
                          THEN << <<t, task[t].state, u.tk.state>> >> ELSE <<>>
              /\ hist' = [hist EXCEPT ![t] = IF clean THEN "ran" ELSE "none"]
              /\ fx' = (IF ret.kind = "throw"
                        THEN <<HandleErrorCall(Top.z, ret.err,
                                               HandleError(zoneSpec, Top.z, he))>>
                        ELSE <<>>) \o u.notes
    /\ stack' = Pop(stack)
    /\ UNCHANGED <<zoneSpec, lim, order, nested, queue, draining, armed>>
    /\ UNCHANGED calls

(***************************************************************************)
(* ZoneTask.invokeTask, the thunk task.invoke.                             *)
(***************************************************************************)
CallInvoke(t) ==
    /\ CanCall(3)
    /\ task[t].runCount + 1 < MaxRunCount
    /\ Len(zoneFrames) < MaxFrames
    /\ LET tf == [task EXCEPT ![t].runCount = @ + 1]
           base == Append(stack, [F0 EXCEPT !.op = "invoke", !.pc = "run",
                                                  !.t = t])
       IN  IF task[t].zone = NoZone
           THEN RunTaskImmediate(Thrown("runTask", NoZone, t, "TypeError"),
                                 t, base, tf)
           ELSE RunTaskEnter(task[t].zone, t, base, tf)
    /\ nested' = nested + 1
    /\ UNCHANGED <<zoneSpec, lim, order, counts, queue, draining, armed, delta>>
    /\ Called
    /\ fx' = <<>>

\* A faulty variant without the test at the entry of drainMicroTaskQueue:
\* the outermost thunk drains even while a drain is running.
ThunkDrainsWhileDraining(n, isDraining) == n = 1

\* A faulty variant of the thunk's test that never drains.
ThunkNeverDrains(n, isDraining) == FALSE

\* The test of the thunk's finally block, with the test at the entry of
\* drainMicroTaskQueue: the thunk of the outermost task frame drains the
\* queue unless a drain is already running.
ThunkDrains(n, isDraining) == n = 1 /\ ~isDraining

\* The finally block of the thunk: drain if this is the outermost task frame.
InvokeUnwind ==
    /\ stack # <<>>
    /\ Top.op = "invoke"
    /\ Top.pc = "run"
    /\ ret.kind # "none"
    /\ IF ThunkDrains(nested, draining)
       THEN /\ stack' = Append([stack EXCEPT ![Len(stack)].pc = "drain",
                                             ![Len(stack)].saved = ret],
                               [F0 EXCEPT !.op = "drain", !.i = 1])
            /\ draining' = TRUE
            /\ ret' = R0
            /\ UNCHANGED nested
       ELSE /\ stack' = Pop(stack)
            /\ ret' = [ret EXCEPT !.from = "invoke",
                          !.h = IF ret.h = "clean" /\ hist[Top.t] = "ran"
                                THEN "clean" ELSE Null]
            /\ nested' = nested - 1
            /\ UNCHANGED draining
    /\ trans' = <<>>
    /\ UNCHANGED <<zoneSpec, lim, order, task, counts, zoneFrames, currentTask, queue, armed,
                   hist, delta>>
    /\ UNCHANGED calls
    /\ fx' = <<>>

\* The thunk returns what runTask returned once the drain is over.
InvokeAfterDrain ==
    /\ stack # <<>>
    /\ Top.op = "invoke"
    /\ Top.pc = "drain"
    /\ ret.kind # "none"
    /\ stack' = Pop(stack)
    /\ ret' = [Top.saved EXCEPT !.from = "invoke",
                  !.h = IF Top.saved.h = "clean" /\ hist[Top.t] = "ran"
                        THEN "clean" ELSE Null]
    /\ nested' = nested - 1
    /\ trans' = <<>>
    /\ UNCHANGED <<zoneSpec, lim, order, task, counts, zoneFrames, currentTask, queue,
                   draining, armed, hist, delta>>
    /\ UNCHANGED calls
    /\ fx' = <<>>

(***************************************************************************)
(* The microtask queue.                                                    *)
(***************************************************************************)
\* A faulty variant of scheduleMicroTask that puts the task at the front.
ScheduleMicroTaskFront(q, a, n, t) ==
    [queue |-> <<t>> \o q,
     armed |-> IF n = 0 /\ Len(q) = 0 THEN a + 1 ELSE a]

\* scheduleMicroTask(task): arm a drain when nothing will drain the queue.
ScheduleMicroTask(q, a, n, t) ==
    [queue |-> Append(q, t),
     armed |-> IF n = 0 /\ Len(q) = 0 THEN a + 1 ELSE a]

\* A faulty variant of the drain's catch that drops the error.
UnhandledErrorDropped(outcome) == <<>>

\* The catch around task.zone.runTask in the drain: an error that runTask
\* threw is passed to _api.onUnhandledError and goes no further.
UnhandledError(outcome) ==
    IF outcome.kind = "throw"
    THEN <<[E0 EXCEPT !.ev = "onUnhandledError", !.err = outcome.err]>>
    ELSE <<>>

\* A faulty variant of the end of the drain that does not call the hook.
DrainDoneSkipped == E0

\* The call _api.microtaskDrainDone() that ends a drain.
DrainDone == [E0 EXCEPT !.ev = DrainDoneHook]

\* drainMicroTaskQueue: one turn of its loops, from the outcome of the task
\* it ran last (if any) up to the callback of the next task, or to the call
\* of microtaskDrainDone, after which the flag is cleared (pc = "done" while
\* a patched hook runs).
DrainNext ==
    /\ stack # <<>>
    /\ Top.op = "drain"
    /\ LET more == Top.i <= Len(Top.q)
           q2 == IF more THEN Top.q ELSE queue
           i2 == IF more THEN Top.i ELSE 1
       IN  IF Top.pc # "done" /\ (more \/ Len(queue) > 0)
           THEN /\ queue' = IF more THEN queue ELSE <<>>
                /\ order' = Tail(order)
                /\ RunTaskEnter(task[q2[i2]].zone, q2[i2],
                                [stack EXCEPT ![Len(stack)].q = q2,
                                              ![Len(stack)].i = i2 + 1],
                                task)
                /\ UNCHANGED draining
                /\ fx' = UnhandledError(ret)
           ELSE IF Top.pc # "done" /\ DrainDonePatched \in zoneSpec[Root]
           THEN /\ stack' = Append([stack EXCEPT ![Len(stack)].pc = "done"],
                                   [F0 EXCEPT !.op = DrainDoneHook])
                /\ ret' = R0
                /\ trans' = <<>>
                /\ fx' = Append(UnhandledError(ret), DrainDone)
                /\ UNCHANGED <<task, zoneFrames, currentTask, hist, queue, order,
                               draining>>
           ELSE /\ draining' = FALSE
                /\ stack' = Pop(stack)
                /\ ret' = Returned("drain", Null, NoTask)
                /\ trans' = <<>>
                /\ fx' = IF Top.pc = "done" THEN <<>>
                         ELSE Append(UnhandledError(ret), DrainDone)
                /\ UNCHANGED <<task, zoneFrames, currentTask, hist, queue, order>>
    /\ UNCHANGED <<zoneSpec, lim, counts, nested, armed, delta>>
    /\ UNCHANGED calls

\* The host fires an armed trigger: it calls drainMicroTaskQueue.
FireTrigger ==
    /\ stack = <<>>
    /\ ret.kind = "none"
    /\ armed > 0
    /\ armed' = armed - 1
    /\ IF draining
       THEN UNCHANGED <<stack, draining>>
       ELSE /\ stack' = <<[F0 EXCEPT !.op = "drain", !.i = 1]>>
            /\ draining' = TRUE
    /\ trans' = <<>>
    /\ UNCHANGED <<zoneSpec, lim, order, task, counts, zoneFrames, currentTask, nested, queue,
                   ret, hist, delta>>
    /\ UNCHANGED calls
    /\ fx' = <<>>

(***************************************************************************)
(* Zone.scheduleTask and ZoneDelegate.scheduleTask.                        *)
(***************************************************************************)
\* delegate d's scheduleTask(target, task): up to the call of a user hook,
\* or the default action.  base is the stack of the caller.
DelegateSchedule(d, target, t, tf, base) ==
    LET r == SchedResolve(zoneSpec, d, <<>>)
        tk == tf[t]
        pushed == [tf EXCEPT ![t].zd.items = @ \o r.pushes]
        m == ScheduleMicroTask(queue, armed, nested, t)
    IN  IF Len(r.pushes) > 0 /\ ~tk.zd.live
        THEN /\ task' = tf
             /\ stack' = base
             /\ ret' = Thrown("delegate", d, t, "TypeError")
             /\ UNCHANGED <<queue, armed, order>>
        ELSE IF r.end = "hook"
        THEN /\ Len(base) < lim.depth
             /\ task' = pushed
             /\ stack' = Append(base, [F0 EXCEPT !.op = "onScheduleTask",
                                                 !.z = r.hook, !.dl = r.dlgt,
                                                 !.target = target, !.t = t])
             /\ ret' = R0
             /\ UNCHANGED <<queue, armed, order>>
        ELSE IF tk.scheduleFn
        THEN /\ task' = pushed
             /\ stack' = base
             /\ \E fnThrows \in BOOLEAN :
                   ret' = IF fnThrows THEN Thrown("scheduleFn", d, t, "user")
                          ELSE [Returned("delegate", d, t) EXCEPT !.val = t]
             /\ UNCHANGED <<queue, armed, order>>
        ELSE IF tk.type = "microTask"
        THEN /\ Len(queue) < MaxQueue
             /\ m.armed <= MaxArmed
             /\ task' = pushed
             /\ stack' = base
             /\ queue' = m.queue
             /\ armed' = m.armed
             /\ order' = Append(order, t)
             /\ ret' = [Returned("delegate", d, t) EXCEPT !.val = t]
        ELSE /\ task' = pushed
             /\ stack' = base
             /\ ret' = Thrown("delegate", d, t, "Task is missing scheduleFn.")
             /\ UNCHANGED <<queue, armed, order>>

\* Zone.scheduleTask from its entry to the call of delegate.scheduleTask.
CallScheduleTask(z, t) ==
    /\ CanCall(1)
    /\ LET tk == task[t]
           tr == TransitionTo(tk, "scheduling", "notScheduled", Null)
           tag == Len(stack) + 1
           f == [F0 EXCEPT !.op = "scheduleTask", !.z = z, !.t = t, !.tag = tag]
       IN  IF RescheduleRejected(z, tk.zone) \/ ~tr.ok
           THEN /\ ret' = Thrown("scheduleTask", z, t,
                                 IF RescheduleRejected(z, tk.zone)
                                 THEN "can not reschedule" ELSE "transition")
                /\ stack' = stack
                /\ trans' = <<>>
                /\ UNCHANGED <<task, queue, armed, order, hist, delta>>
           ELSE /\ DelegateSchedule(z, z, t,
                      [task EXCEPT ![t] =
                          [tr.tk EXCEPT !.zd = [live |-> TRUE, tag |-> tag,
                                                items |-> <<>>],
                                        !.zone = z]],
                      Append(stack, f))
                /\ trans' = << <<t, "notScheduled", "scheduling">> >>
                /\ hist' = [hist EXCEPT ![t] = "scheduling"]
                /\ delta' = [delta EXCEPT ![t] = ZeroDelta]
    /\ UNCHANGED <<zoneSpec, lim, counts, zoneFrames, currentTask, nested, draining>>
    /\ Called
    /\ fx' = <<>>

\* An onScheduleTask hook calls parentZoneDelegate.scheduleTask.
HookDelegate ==
    /\ CanCall(0)
    /\ stack # <<>>
    /\ Top.op = "onScheduleTask"
    /\ DelegateSchedule(Top.dl, Top.target, Top.t, task, stack)
    /\ trans' = <<>>
    /\ UNCHANGED <<zoneSpec, lim, counts, zoneFrames, currentTask, nested, draining,
                   hist, delta>>
    /\ Called
    /\ fx' = <<>>

\* A faulty variant of the identity test that takes every list for the one
\* this call created.
SameListUntested(zd, tag) == TRUE

\* The test task._zoneDelegates === zoneDelegates of Zone.scheduleTask: the
\* task still has the list that the call with this tag created.
SameList(zd, tag) == zd.live /\ zd.tag = tag

\* The rest of Zone.scheduleTask once delegate.scheduleTask has returned or
\* thrown.
ScheduleAfterDelegate ==
    /\ stack # <<>>
    /\ Top.op = "scheduleTask"
    /\ ret.kind # "none"
    /\ \E he \in (IF ret.kind = "throw" THEN BOOLEAN ELSE {TRUE}) :
       LET t == Top.t
           z == Top.z
           tru == TransitionTo(task[t], "unknown", "scheduling", "notScheduled")
           r == IF ret.val = NoTask THEN t ELSE ret.val
           rk == task[r]
           same == r = t /\ SameList(rk.zd, Top.tag)
           u == IF same THEN ZoneUpdateTaskCount(rk, counts, 1)
                ELSE [tk |-> rk, cs |-> counts, err |-> Null, notes |-> <<>>]
           fin == IF u.err = Null /\ u.tk.state = "scheduling"
                  THEN TransitionTo(u.tk, "scheduled", "scheduling", Null).tk
                  ELSE u.tk
           clean == /\ hist[t] = "scheduling" /\ r = t
                    /\ u.err = Null /\ fin.state = "scheduled"
       IN  IF ret.kind = "throw"
           THEN /\ task' = [task EXCEPT ![t] = tru.tk]
                /\ ret' = Thrown("scheduleTask", z, t,
                                 IF tru.ok THEN ret.err ELSE "transition")
                /\ trans' = IF tru.ok THEN << <<t, task[t].state, "unknown">> >>
                            ELSE <<>>
                /\ hist' = [hist EXCEPT ![t] = "none"]
                /\ fx' = IF tru.ok
                         THEN <<HandleErrorCall(z, ret.err,
                                                HandleError(zoneSpec, z, he))>>
                         ELSE <<>>
                /\ UNCHANGED <<counts, delta>>
           ELSE /\ task' = [task EXCEPT ![r] = fin]
                /\ fx' = u.notes
                /\ counts' = u.cs
                /\ delta' = DeltaAfter(r, u.cs)
                /\ ret' = IF u.err # Null THEN Thrown("scheduleTask", z, t, u.err)
                          ELSE [Returned("scheduleTask", z, t) EXCEPT
                                   !.val = r,
                                   !.h = IF clean THEN "clean" ELSE Null]
                /\ trans' = IF fin.state # rk.state
                            THEN << <<r, rk.state, fin.state>> >> ELSE <<>>
                /\ hist' = [x \in DOMAIN hist |->
                              IF x = t THEN (IF clean THEN "sched" ELSE "none")
                              ELSE IF x = r THEN "none" ELSE hist[x]]
    /\ stack' = Pop(stack)
    /\ UNCHANGED <<zoneSpec, lim, order, zoneFrames, currentTask, nested, queue, draining,
                   armed>>
    /\ UNCHANGED calls

\* ZoneTask.cancelScheduleRequest.
CallCancelScheduleRequest(t) ==
    /\ CanCall(0)
    /\ LET tr == TransitionTo(task[t], "notScheduled", "scheduling", Null)
       IN  /\ task' = [task EXCEPT ![t] = tr.tk]
           /\ ret' = IF tr.ok THEN Returned("cancelScheduleRequest", Null, t)
                     ELSE Thrown("cancelScheduleRequest", Null, t, "transition")
           /\ trans' = IF tr.ok THEN << <<t, "scheduling", "notScheduled">> >>
                       ELSE <<>>
           /\ hist' = IF tr.ok THEN [hist EXCEPT ![t] = "none"] ELSE hist
    /\ stack' = stack
    /\ UNCHANGED <<zoneSpec, lim, order, counts, zoneFrames, currentTask, nested, queue,
                   draining, armed, delta>>
    /\ Called
    /\ fx' = <<>>

(***************************************************************************)
(* Zone.cancelTask.  The cancel hook and cancelFn are atomic user code.    *)
(***************************************************************************)
\* A faulty variant of the reset that marks the cancelled task with -1.
CancelResetMinusOne(tk) == [tk EXCEPT !.runCount = -1]

\* The last statement of Zone.cancelTask: task.runCount = 0.
CancelReset(tk) == [tk EXCEPT !.runCount = 0]

CallCancelTask(z, t) ==
    /\ CanCall(0)
    /\ \E hk \in HookChoices, fnThrows \in BOOLEAN, he \in BOOLEAN :
          LET tk == task[t]
              tr == TransitionTo(tk, "canceling", "scheduled", "running")
              r == CancelResolve(zoneSpec, z, hk)
              failed == r = "throw" \/ (r = "default" /\ (~tk.cancelFn \/ fnThrows))
              err == IF r = "default" /\ ~tk.cancelFn
                     THEN "Task is not cancelable" ELSE "user"
              u == ZoneUpdateTaskCount(tr.tk, counts, -1)
              fin == CancelReset(TransitionTo(u.tk, "notScheduled", "canceling",
                                              Null).tk)
              e1 == <<t, tk.state, "canceling">>
              clean == hist[t] \in {"sched", "ran"}
          IN  IF tk.zone # z \/ ~tr.ok
              THEN /\ ret' = Thrown("cancelTask", z, t,
                                    IF tk.zone # z THEN "cancelZone"
                                    ELSE "transition")
                   /\ trans' = <<>>
                   /\ fx' = <<>>
                   /\ UNCHANGED <<task, counts, hist, delta>>
              ELSE IF failed
              THEN /\ task' = [task EXCEPT ![t] =
                                  TransitionTo(tr.tk, "unknown", "canceling", Null).tk]
                   /\ ret' = Thrown("cancelTask", z, t, err)
                   /\ trans' = <<e1, <<t, "canceling", "unknown">> >>
                   /\ hist' = [hist EXCEPT ![t] = "none"]
                   /\ fx' = <<HandleErrorCall(z, err,
                                              HandleError(zoneSpec, z, he))>>
                   /\ UNCHANGED <<counts, delta>>
              ELSE /\ task' = [task EXCEPT ![t] = IF u.err # Null THEN u.tk ELSE fin]
                   /\ counts' = u.cs
                   /\ delta' = DeltaAfter(t, u.cs)
                   /\ ret' = IF u.err # Null THEN Thrown("cancelTask", z, t, u.err)
                             ELSE [Returned("cancelTask", z, t) EXCEPT
                                      !.h = IF clean THEN "clean" ELSE Null]
                   /\ trans' = IF u.err # Null THEN <<e1>>
                               ELSE <<e1, <<t, "canceling", "notScheduled">> >>
                   /\ hist' = [hist EXCEPT ![t] =
                                 IF hist[t] = "run" /\ u.err = Null
                                 THEN "cancelled" ELSE "none"]
                   /\ fx' = u.notes
    /\ stack' = stack
    /\ UNCHANGED <<zoneSpec, lim, order, zoneFrames, currentTask, nested, queue, draining,
                   armed>>
    /\ Called

(***************************************************************************)
(* The specification.                                                      *)
(***************************************************************************)
Next ==
    \/ \E z \in Zones, g \in BOOLEAN : CallRun(z, g)
    \/ RunAfterInvoke
    \/ \E z \in Zones, t \in Tasks : CallRunTask(z, t)
    \/ RunTaskAfterInvoke
    \/ \E t \in Tasks : CallInvoke(t)
    \/ InvokeUnwind
    \/ InvokeAfterDrain
    \/ DrainNext
    \/ FireTrigger
    \/ \E z \in Zones, t \in Tasks : CallScheduleTask(z, t)
    \/ HookDelegate
    \/ ScheduleAfterDelegate
    \/ \E t \in Tasks : CallCancelScheduleRequest(t)
    \/ \E z \in Zones, t \in Tasks : CallCancelTask(z, t)
    \/ \E rv \in Tasks \cup {NoTask} : UserReturn(rv)
    \/ UserThrow
    \/ UserResume
    \/ UserPropagate

Spec == Init /\ [][Next]_vars

(***************************************************************************)
(* A longer run of less of the program: user code that only schedules and  *)
(* cancels tasks in zone B, whose onScheduleTask hook re-enters the zone.   *)
(***************************************************************************)
InitHook ==
    /\ zoneSpec = DefaultZoneSpecs
    /\ task \in {f \in [Tasks -> TaskShapes] : f["t2"] \in OneShotShapes}
    /\ counts = [d \in Zones |-> [ty \in TaskTypes |-> 0]]
    /\ zoneFrames = <<Root>>
    /\ currentTask = NoTask
    /\ nested = 0
    /\ queue = <<>>
    /\ draining = FALSE
    /\ armed = 0
    /\ stack = <<>>
    /\ ret = R0
    /\ trans = <<>>
    /\ calls = 0
    /\ hist = [t \in Tasks |-> "none"]
    /\ delta = [t \in Tasks |-> ZeroDelta]
    /\ fx = <<>>
    /\ order = <<>>
    /\ lim = [calls |-> MaxHookCalls, depth |-> MaxDepth]

NextHook ==
    \/ \E t \in Tasks : CallScheduleTask("B", t)
    \/ ScheduleAfterDelegate
    \/ \E t \in Tasks : CallCancelScheduleRequest(t)
    \/ \E t \in Tasks : CallCancelTask("B", t)
    \/ \E rv \in Tasks \cup {NoTask} : UserReturn(rv)
    \/ UserResume

SpecHook == InitHook /\ [][NextHook]_vars

(***************************************************************************)
(* Rescheduling after a cancelled request: zone A, the parent of B, has an *)
(* onScheduleTask hook, so a request made in A or in B can be cancelled    *)
(* from the hook and the task offered to every zone of the tree.           *)
(***************************************************************************)
MaxRescheduleCalls == 4

RescheduleZoneSpecs ==
    [z \in Zones |-> IF z = "A" THEN {"onScheduleTask"} ELSE {}]

InitReschedule ==
    /\ zoneSpec = RescheduleZoneSpecs
    /\ task \in {f \in [Tasks -> TaskShapes] : f["t2"] \in OneShotShapes}
    /\ counts = [d \in Zones |-> [ty \in TaskTypes |-> 0]]
    /\ zoneFrames = <<Root>>
    /\ currentTask = NoTask
    /\ nested = 0
    /\ queue = <<>>
    /\ draining = FALSE
    /\ armed = 0
    /\ stack = <<>>
    /\ ret = R0
    /\ trans = <<>>
    /\ calls = 0
    /\ hist = [t \in Tasks |-> "none"]
    /\ delta = [t \in Tasks |-> ZeroDelta]
    /\ fx = <<>>
    /\ order = <<>>
    /\ lim = [calls |-> MaxRescheduleCalls, depth |-> MaxDepth]

NextReschedule ==
    \/ \E z \in Zones, t \in Tasks : CallScheduleTask(z, t)
    \/ HookDelegate
    \/ ScheduleAfterDelegate
    \/ \E t \in Tasks : CallCancelScheduleRequest(t)
    \/ \E rv \in Tasks \cup {NoTask} : UserReturn(rv)
    \/ UserThrow
    \/ UserResume

SpecReschedule == InitReschedule /\ [][NextReschedule]_vars

(***************************************************************************)
(* A deeper run of less of the program: three tasks of the root zone, two  *)
(* microTasks and a macroTask, which user code schedules and invokes, and  *)
(* the drains of the host and of the thunk.                                *)
(***************************************************************************)
DrainTasks == {"t1", "t2", "t3"}

InitDrain ==
    /\ zoneSpec = DefaultZoneSpecs
    /\ task = [t \in DrainTasks |->
                  IF t = "t2" THEN NewTask("macroTask", TRUE, FALSE, TRUE, TRUE)
                  ELSE NewTask("microTask", FALSE, FALSE, FALSE, FALSE)]
    /\ counts = [d \in Zones |-> [ty \in TaskTypes |-> 0]]
    /\ zoneFrames = <<Root>>
    /\ currentTask = NoTask
    /\ nested = 0
    /\ queue = <<>>
    /\ draining = FALSE
    /\ armed = 0
    /\ stack = <<>>
    /\ ret = R0
    /\ trans = <<>>
    /\ calls = 0
    /\ hist = [t \in DrainTasks |-> "none"]
    /\ delta = [t \in DrainTasks |-> ZeroDelta]
    /\ fx = <<>>
    /\ order = <<>>
    /\ lim = [calls |-> MaxDrainCalls, depth |-> MaxDrainDepth]

NextDrain ==
    \/ \E t \in DrainTasks : CallScheduleTask(Root, t)
    \/ ScheduleAfterDelegate
    \/ \E t \in DrainTasks : CallInvoke(t)
    \/ RunTaskAfterInvoke
    \/ InvokeUnwind
    \/ InvokeAfterDrain
    \/ DrainNext
    \/ FireTrigger
    \/ UserReturn(NoTask)
    \/ UserThrow
    \/ UserResume

SpecDrain == InitDrain /\ [][NextDrain]_vars

(***************************************************************************)
(* ZoneTask._transitionTo on its own: one call on a task in any state,     *)
(* with any arguments.                                                     *)
(***************************************************************************)
AnyTasks ==
    { [k EXCEPT !.state = st, !.zone = "A", !.zd = l] :
         k \in TaskShapes, st \in TaskStates,
         l \in {NullList, [live |-> TRUE, tag |-> 1, items |-> <<"A">>]} }

InitTransition ==
    /\ zoneSpec = DefaultZoneSpecs
    /\ task \in {f \in [Tasks -> AnyTasks \cup TaskShapes] :
                    /\ f["t1"] \in AnyTasks
                    /\ f["t2"] = NewTask("microTask", FALSE, FALSE, FALSE, FALSE)}
    /\ counts = [d \in Zones |-> [ty \in TaskTypes |-> 0]]
    /\ zoneFrames = <<Root>>
    /\ currentTask = NoTask
    /\ nested = 0
    /\ queue = <<>>
    /\ draining = FALSE
    /\ armed = 0
    /\ stack = <<>>
    /\ ret = R0
    /\ trans = <<>>
    /\ calls = 0
    /\ hist = [t \in Tasks |-> "none"]
    /\ delta = [t \in Tasks |-> ZeroDelta]
    /\ fx = <<>>
    /\ order = <<>>
    /\ lim = [calls |-> MaxCalls, depth |-> MaxDepth]

\* task._transitionTo(toState, fromState1, fromState2); ret keeps the
\* arguments and, when it throws, what the message names.
CallTransitionTo(t, toState, fromState1, fromState2) ==
    /\ calls < MaxTransitions
    /\ LET r == TransitionTo(task[t], toState, fromState1, fromState2)
       IN  /\ task' = [task EXCEPT ![t] = r.tk]
           /\ ret' = [R0 EXCEPT !.kind = IF r.ok THEN "return" ELSE "throw",
                                !.from = "_transitionTo", !.t = t,
                                !.err = r.msg,
                                !.val = <<toState, fromState1, fromState2>>]
    /\ calls' = calls + 1
    /\ UNCHANGED <<zoneSpec, lim, order, counts, zoneFrames, currentTask, nested, queue,
                   draining, armed, stack, trans, hist, delta, fx>>

NextTransition ==
    \E toState \in TaskStates, fromState1 \in TaskStates,
       fromState2 \in TaskStates \cup {Null} :
          CallTransitionTo("t1", toState, fromState1, fromState2)

SpecTransition == InitTransition /\ [][NextTransition]_vars

(***************************************************************************)
(* The delegates on their own: every zone of the deeper tree is forked     *)
(* with a spec that defines some of two hooks, one of them onHasTask, and  *)
(* each delegate method is called the way the Zone methods call it, with   *)
(* the zone itself as targetZone.  ret names the method and the zone, fx   *)
(* holds the hook call that results.                                       *)
(***************************************************************************)
DelegateZoneSpecs ==
    UNION { { f \in [DeepZones -> SUBSET {h, "onHasTask"}] : f[Root] = {} } :
            h \in Hooks }

InitDelegate ==
    /\ zoneSpec \in DelegateZoneSpecs
    /\ task = [t \in Tasks |-> NewTask("microTask", FALSE, FALSE, FALSE, FALSE)]
    /\ counts = [d \in Zones |-> [ty \in TaskTypes |-> 0]]
    /\ zoneFrames = <<Root>>
    /\ currentTask = NoTask
    /\ nested = 0
    /\ queue = <<>>
    /\ draining = FALSE
    /\ armed = 0
    /\ stack = <<>>
    /\ ret = R0
    /\ trans = <<>>
    /\ calls = 0
    /\ hist = [t \in Tasks |-> "none"]
    /\ delta = [t \in Tasks |-> ZeroDelta]
    /\ fx = <<>>
    /\ order = <<>>
    /\ lim = [calls |-> MaxCalls, depth |-> MaxDepth]

\* Zone z calls the method of its own delegate for hook h:
\* this._zoneDelegate.method(this, ...).
CallDelegate(z, h) ==
    /\ fx' = <<Dispatch(zoneSpec, h, z, z)>>
    /\ ret' = [Returned(h, z, NoTask) EXCEPT !.from = h]
    /\ UNCHANGED <<zoneSpec, lim, order, counts, zoneFrames, currentTask, nested,
                   queue, draining, armed, stack, trans, hist, delta, task, calls>>

NextDelegate == \E z \in DeepZones, h \in Hooks : CallDelegate(z, h)

SpecDelegate == InitDelegate /\ [][NextDelegate]_vars


(***************************************************************************)
(* The drain with _api.microtaskDrainDone replaced by a hook that may use  *)
(* the zone API before it returns.                                         *)
(***************************************************************************)
InitDrainDone ==
    /\ zoneSpec = [DefaultZoneSpecs EXCEPT ![Root] = {DrainDonePatched}]
    /\ task = [t \in DrainTasks |->
                  IF t = "t2" THEN NewTask("macroTask", TRUE, FALSE, TRUE, TRUE)
                  ELSE NewTask("microTask", FALSE, FALSE, FALSE, FALSE)]
    /\ counts = [d \in Zones |-> [ty \in TaskTypes |-> 0]]
    /\ zoneFrames = <<Root>>
    /\ currentTask = NoTask
    /\ nested = 0
    /\ queue = <<>>
    /\ draining = FALSE
    /\ armed = 0
    /\ stack = <<>>
    /\ ret = R0
    /\ trans = <<>>
    /\ calls = 0
    /\ hist = [t \in DrainTasks |-> "none"]
    /\ delta = [t \in DrainTasks |-> ZeroDelta]
    /\ fx = <<>>
    /\ order = <<>>
    /\ lim = [calls |-> MaxDrainCalls, depth |-> MaxDrainDepth]

SpecDrainDone == InitDrainDone /\ [][NextDrain]_vars

\* The running code always takes its next step, user code returns, and the
\* host fires the triggers that are armed.
SpecDrainDoneFair == SpecDrainDone /\ WF_vars(NextDrain)
(***************************************************************************)
(* Counting in a subtree: A defines onHasTask (and onHandleError), and B   *)
(* and D below it define no hook at all.  Tasks are scheduled, run and     *)
(* cancelled in A, B and D of the deeper tree.                             *)
(***************************************************************************)
MaxHasTaskCalls == 4

HasTaskZoneSpecs ==
    [z \in DeepZones |-> IF z = "A" THEN {"onHasTask", "onHandleError"} ELSE {}]

HasTaskZones == {"A", "B", "D"}

InitHasTask ==
    /\ zoneSpec \in {HasTaskZoneSpecs,
                     [HasTaskZoneSpecs EXCEPT !["A"] = @ \cup {ThrowingOnHasTask}]}
    /\ task \in {f \in [Tasks -> TaskShapes] : f["t2"] \in OneShotShapes}
    /\ counts = [d \in DeepZones |-> [ty \in TaskTypes |-> 0]]
    /\ zoneFrames = <<Root>>
    /\ currentTask = NoTask
    /\ nested = 0
    /\ queue = <<>>
    /\ draining = FALSE
    /\ armed = 0
    /\ stack = <<>>
    /\ ret = R0
    /\ trans = <<>>
    /\ calls = 0
    /\ hist = [t \in Tasks |-> "none"]
    /\ delta = [t \in Tasks |-> ZeroDelta]
    /\ fx = <<>>
    /\ order = <<>>
    /\ lim = [calls |-> MaxHasTaskCalls, depth |-> MaxDepth]

NextHasTask ==
    \/ \E z \in HasTaskZones, t \in Tasks : CallScheduleTask(z, t)
    \/ ScheduleAfterDelegate
    \/ \E z \in HasTaskZones, t \in Tasks : CallCancelTask(z, t)
    \/ \E z \in HasTaskZones, t \in Tasks : CallRunTask(z, t)
    \/ RunTaskAfterInvoke
    \/ UserReturn(NoTask)
    \/ UserThrow
    \/ UserResume

SpecHasTask == InitHasTask /\ [][NextHasTask]_vars

(***************************************************************************)
(* The properties.                                                         *)
(***************************************************************************)
RunCalls == {"run", "runGuarded", "runTask"}

\* C1: when a call of Zone.run, Zone.runGuarded or Zone.runTask has returned
\* or thrown, the zone-frame stack is the one the call was entered with,
\* whatever the callback and the hooks did.
C1_FrameStackRestored ==
    (ret.kind # "none" /\ ret.from \in RunCalls) => zoneFrames = ret.ezf

\* C2: every task counter of every delegate is at least 0 in every reachable
\* state, the state a throwing counter update leaves behind included.
C2_CountersNonNegative ==
    \A d \in Zones : \A ty \in TaskTypes : counts[d][ty] >= 0

\* The edges of the task state machine as the claim lists them.
ListedEdges ==
    { <<"notScheduled", "scheduling">>, <<"scheduling", "scheduled">>,
      <<"scheduling", "notScheduled">>, <<"scheduled", "running">>,
      <<"running", "scheduled">>, <<"running", "notScheduled">>,
      <<"scheduled", "canceling">>, <<"running", "canceling">>,
      <<"canceling", "notScheduled">>, <<"scheduling", "unknown">>,
      <<"canceling", "unknown">> }

EdgesOfStep == { <<trans[i][2], trans[i][3]>> : i \in DOMAIN trans }

\* C3 as stated: a task's state changes only along the listed edges.
C3_OnlyListedEdges == EdgesOfStep \subseteq ListedEdges

\* C3, amended: a task's state changes only along the listed edges or along
\* notScheduled -> unknown, which a scheduling error takes when the schedule
\* request was cancelled before the error.
C3_OnlyListedEdgesOrCancelledRequest ==
    EdgesOfStep \subseteq ListedEdges \cup { <<"notScheduled", "unknown">> }

C3_Witness ==
    /\ <<"notScheduled", "unknown">> \in EdgesOfStep
    /\ ret.kind = "throw"
    /\ ret.from = "scheduleTask"

\* C4: _transitionTo(to, from1, from2) called in a state that is neither
\* from1 nor from2 throws an error that names to, from1 and from2, and
\* leaves the task's state and its zoneDelegates list as they were.
C4_IllegalTransitionThrows ==
    [][\A t \in Tasks :
          (/\ ret'.from = "_transitionTo"
           /\ ret'.t = t
           /\ task[t].state \notin {ret'.val[2], ret'.val[3]})
          => /\ ret'.kind = "throw"
             /\ ret'.err.to = ret'.val[1]
             /\ ret'.err.from1 = ret'.val[2]
             /\ ret'.err.from2 = ret'.val[3]
             /\ task'[t].state = task[t].state
             /\ task'[t].zd = task[t].zd]_vars

C4_Witness ==
    /\ ret.from = "_transitionTo"
    /\ ret.kind = "throw"
    /\ ret.val[1] = "notScheduled"
    /\ ret.val[3] # Null
    /\ task[ret.t].zd.live

\* C5: no two runTask frames are active for the same task at once.
C5_NoTwoRunTaskFrames ==
    \A i, j \in DOMAIN stack :
       (i < j /\ stack[i].op = "runTask" /\ stack[j].op = "runTask")
       => stack[i].t # stack[j].t

\* The proper ancestors of a zone, from the tree alone.
RECURSIVE ProperAncestors(_)
ProperAncestors(z) ==
    IF ZoneParent(z) = Null THEN {}
    ELSE {ZoneParent(z)} \cup ProperAncestors(ZoneParent(z))

\* This step is a call of Zone.scheduleTask; its zone and its task.
IsScheduleCall ==
    /\ calls' = calls + 1
    /\ \/ stack' = stack /\ ret'.from = "scheduleTask"
       \/ Len(stack') > Len(stack) /\ stack'[Len(stack) + 1].op = "scheduleTask"

ScheduleCallZone ==
    IF stack' = stack THEN ret'.z ELSE stack'[Len(stack) + 1].z

ScheduleCallTask ==
    IF stack' = stack THEN ret'.t ELSE stack'[Len(stack) + 1].t

\* C6: Z.scheduleTask(t) throws the descendant error exactly when t.zone is
\* set and Z is a proper descendant of it (so never for the same zone, an
\* ancestor or an unrelated zone), and then the task, the counters, the
\* frame stack and the queue are unchanged.
C6_RescheduleRejectedIffDescendant ==
    [][IsScheduleCall =>
          LET rejected == stack' = stack /\ ret'.err = "can not reschedule"
              tz == task[ScheduleCallTask].zone
          IN  /\ rejected <=> (tz # NoZone /\ tz \in ProperAncestors(ScheduleCallZone))
              /\ rejected => UNCHANGED <<task, counts, zoneFrames, queue>>]_vars

C6_Witness ==
    /\ ret.kind = "throw"
    /\ ret.from = "scheduleTask"
    /\ ret.err = "can not reschedule"
    /\ task[ret.t].zone = "A"
    /\ ret.z = "B"
    /\ task[ret.t].state = "notScheduled"

\* C7: Z.runTask(t) with t.zone other than Z throws the zone-of-creation
\* error before any effect: no callback frame is entered and the tasks, the
\* frame stack, the current task and the counters are unchanged; a runTask
\* frame is only ever entered in the task's zone.
C7_RunTaskOnlyInCreationZone ==
    [][/\ (/\ calls' = calls + 1
           /\ stack' = stack
           /\ ret'.from = "runTask"
           /\ task[ret'.t].zone # ret'.z)
          => /\ ret'.kind = "throw"
             /\ ret'.err = "creationZone"
             /\ UNCHANGED <<task, zoneFrames, currentTask, counts, queue>>
       /\ \A i \in DOMAIN stack' :
             (i > Len(stack) /\ stack'[i].op = "runTask")
             => stack'[i].z = task[stack'[i].t].zone]_vars

C7_Witness ==
    /\ ret.kind = "throw"
    /\ ret.from = "runTask"
    /\ ret.err = "creationZone"
    /\ task[ret.t].state = "scheduled"
    /\ task[ret.t].zone # ret.z

\* A call that was one step of a plain sequence on its task (scheduled by
\* one completed scheduleTask, then run or cancelled with nothing else done
\* to the task in between or by its callback) has just returned or thrown.
CleanExit(from) ==
    ret.kind # "none" /\ ret.from \in from /\ ret.h = "clean"

RunsOnce(tk) ==
    tk.type = "microTask" \/ (tk.type = "macroTask" /\ ~(tk.hasData /\ tk.isPeriodic))

C9_ScheduleRunOnceRestores ==
    (CleanExit({"runTask", "invoke"}) /\ RunsOnce(task[ret.t]))
    => /\ task[ret.t].state = "notScheduled"
       /\ task[ret.t].runCount = 0
       /\ delta[ret.t] = ZeroDelta

C9_Witness ==
    /\ CleanExit({"invoke"})
    /\ RunsOnce(task[ret.t])
    /\ task[ret.t].zone = "A"

\* The number of times delegate d is on the list.
RECURSIVE Registered(_, _)
Registered(items, d) ==
    IF items = <<>> THEN 0
    ELSE (IF Head(items) = d THEN 1 ELSE 0) + Registered(Tail(items), d)

\* C10: a periodic macroTask or an eventTask that was scheduled and then run
\* n >= 1 times is scheduled with runCount >= 1, every delegate it is
\* registered with still counts it once, and the run has changed no counter
\* (so it has fired no hasTask notification).
C10_RepeatingTaskStaysScheduled ==
    [][(/\ ret'.kind # "none"
        /\ ret'.from \in {"runTask", "invoke"}
        /\ ret'.h = "clean"
        /\ ~RunsOnce(task'[ret'.t]))
       => /\ task'[ret'.t].state = "scheduled"
          /\ task'[ret'.t].runCount >= 1
          /\ \A d \in Zones :
                delta'[ret'.t][d] = Registered(task'[ret'.t].zd.items, d)
          /\ counts' = counts]_vars

C10_Witness ==
    /\ CleanExit({"runTask"})
    /\ ~RunsOnce(task[ret.t])
    /\ task[ret.t].runCount = 2
    /\ task[ret.t].zd.items # <<>>

(***************************************************************************)
(* hasTask notifications.                                                  *)
(***************************************************************************)
\* The hasTask calls among the hook calls of the last step.
HasTaskCalls(effects) == SelectSeq(effects, LAMBDA e : e.ev = "hasTask")

\* The last step told delegate d's hasTask about a change of type ty.
Notified(effects, d, ty) ==
    \E i \in 1..Len(effects) :
        /\ effects[i].ev = "hasTask"
        /\ effects[i].z = d
        /\ effects[i].change = ty

\* C11: a delegate fires hasTask for a task type exactly when its counter
\* for that type goes from 0 to 1 or from 1 to 0 and on no other change, and
\* the notification carries, for each type, whether the delegate's counter
\* is above 0 after the change, and the type that changed.
C11_HasTaskExactlyAtBoundary ==
    [][ /\ \A i \in 1..Len(HasTaskCalls(fx')) :
              LET n == HasTaskCalls(fx')[i]
              IN  /\ <<n.prev, n.next>> \in {<<0, 1>>, <<1, 0>>}
                  /\ n.microTask = (counts'[n.z]["microTask"] > 0)
                  /\ n.macroTask = (counts'[n.z]["macroTask"] > 0)
                  /\ n.eventTask = (counts'[n.z]["eventTask"] > 0)
                  /\ counts'[n.z][n.change] # counts[n.z][n.change]
        /\ \A d \in Zones, ty \in TaskTypes :
              (counts[d][ty] = 0) # (counts'[d][ty] = 0) =>
                  \/ Notified(fx', d, ty)
                  \/ counts'[d][ty] < 0 ]_vars

\* C12: the hasTask notification for a counter going from 0 to 1 is made
\* inside the scheduleTask call that counts the task, in the step that ends
\* with the call's return; the one for a counter going from 1 to 0 is made
\* inside the cancelTask or runTask call that discounts the task, in the
\* step that ends with the call's return or throw.
C12_NotifiedBeforeTheCallReturns ==
    [][ \A d \in Zones, ty \in TaskTypes :
          /\ (counts[d][ty] = 0 /\ counts'[d][ty] = 1) =>
                /\ Notified(fx', d, ty)
                /\ Top.op = "scheduleTask"
                /\ stack' = Pop(stack)
                /\ ret'.kind = "return"
                /\ ret'.from = "scheduleTask"
          /\ (counts[d][ty] = 1 /\ counts'[d][ty] = 0) =>
                /\ Notified(fx', d, ty)
                /\ ret'.kind # "none"
                /\ \/ ret'.from = "cancelTask" /\ stack' = stack
                   \/ /\ ret'.from = "runTask"
                      /\ Top.op = "runTask"
                      /\ stack' = Pop(stack) ]_vars

\* A runTask has just completed whose unwinding took the hasTask zone's
\* counter from 1 to 0 and notified it.
C12_Witness ==
    /\ ret.kind = "return"
    /\ ret.from = "runTask"
    /\ \E i \in 1..Len(fx) :
          /\ fx[i].ev = "hasTask"
          /\ fx[i].z = "A"
          /\ fx[i].prev = 1
          /\ fx[i].next = 0
          /\ ~fx[i].macroTask /\ ~fx[i].microTask /\ ~fx[i].eventTask

(***************************************************************************)
(* The microtask queue.                                                    *)
(***************************************************************************)
\* The drain is running and this step takes the next task off the queue.
DrainTakes == Top.op = "drain" /\ Len(stack') >= Len(stack)

\* The task the drain takes in this step.
TakenByDrain ==
    LET f == stack'[Len(stack)] IN f.q[f.i - 1]

\* C13: the drain runs the microtasks in the order in which they were put
\* on the queue, also those that are enqueued while the drain is running:
\* the task it takes next is always the oldest one not yet taken.
C13_MicrotasksRunInInsertionOrder ==
    [][ DrainTakes => /\ order # <<>>
                      /\ TakenByDrain = Head(order)
                      /\ order' = Tail(order) ]_vars

\* The drain has run t1 and is now running t2, which t1's callback enqueued
\* while the drain was running (the enqueue armed a trigger that the host
\* has not fired yet).
C13_Witness ==
    /\ Len(stack) = 3
    /\ stack[1].op = "drain"
    /\ stack[1].q = <<"t2">>
    /\ stack[2].op = "runTask" /\ stack[2].t = "t2"
    /\ stack[3].op = "callback"
    /\ hist["t1"] = "ran"
    /\ task["t1"].type = "microTask"
    /\ calls = 2
    /\ armed = 1

HandleErrorCalls(effects) == SelectSeq(effects, LAMBDA e : e.ev = "handleError")

\* Some zone of the chain from z up to the root defines onHandleError.
ChainHandlesErrors(z) ==
    \E a \in ProperAncestors(z) \cup {z} : "onHandleError" \in zoneSpec[a]

\* C15: runGuarded catches the error of its callback and asks handleError
\* once, for its own zone and that error: on true it rethrows the same
\* error, on false it returns undefined; the answer is true when no zone of
\* the chain defines onHandleError.
C15_RunGuardedAsksHandleErrorOnce ==
    [][ (stack # <<>> /\ Top.op = "runGuarded" /\ ret.kind = "throw") =>
          /\ Len(fx') = 1
          /\ fx'[1] = HandleErrorCall(Top.z, ret.err, fx'[1].res)
          /\ ret'.from = "runGuarded"
          /\ fx'[1].res => (ret'.kind = "throw" /\ ret'.err = ret.err)
          /\ ~fx'[1].res => (ret'.kind = "return" /\ ret'.val = NoTask)
          /\ ~ChainHandlesErrors(Top.z) => fx'[1].res ]_vars

\* runGuarded in B, whose parent A defines onHandleError, has just returned
\* undefined: the hook answered false to the callback's error.
C15_Witness ==
    /\ ret.kind = "return"
    /\ ret.from = "runGuarded"
    /\ ret.z = "B"
    /\ fx = <<HandleErrorCall("B", "user", FALSE)>>

\* C16: an error thrown under Zone.run leaves run unchanged, and handleError
\* is not called, whatever onHandleError hooks the chain defines.
C16_RunPropagatesUnhandled ==
    [][ (stack # <<>> /\ Top.op = "run" /\ ret.kind = "throw") =>
          /\ ret'.kind = "throw"
          /\ ret'.from = "run"
          /\ ret'.err = ret.err
          /\ fx' = <<>> ]_vars

\* run in B, below a zone that defines onHandleError, has just thrown the
\* callback's error.
C16_Witness ==
    /\ ret.kind = "throw"
    /\ ret.from = "run"
    /\ ret.z = "B"
    /\ ret.err = "user"
    /\ fx = <<>>

\* C17 as stated: in a zone whose spec defines onHandleError (answering
\* false), run of a callback that throws returns undefined as runGuarded
\* does.  run never asks the hook, so what it answers cannot matter.
C17_RunSuppressesLikeRunGuarded ==
    [][ (/\ stack # <<>>
         /\ Top.op = "run"
         /\ ret.kind = "throw"
         /\ "onHandleError" \in zoneSpec[Top.z]) => ret'.kind = "return" ]_vars

\* C17: in a zone whose spec defines onHandleError, run of a callback that
\* throws rethrows the error without asking the hook; only runGuarded, when
\* the hook answers false, returns undefined.
C17_OnlyRunGuardedSuppresses ==
    [][ (/\ stack # <<>>
         /\ Top.op \in {"run", "runGuarded"}
         /\ ret.kind = "throw"
         /\ "onHandleError" \in zoneSpec[Top.z]) =>
          /\ Top.op = "run" =>
                (ret'.kind = "throw" /\ ret'.err = ret.err /\ fx' = <<>>)
          /\ ret'.kind = "return" =>
                /\ Top.op = "runGuarded"
                /\ Len(HandleErrorCalls(fx')) = 1
                /\ ~HandleErrorCalls(fx')[1].res ]_vars

\* run in A, the zone whose spec defines onHandleError, has just thrown the
\* callback's error.
C17_Witness ==
    /\ ret.kind = "throw"
    /\ ret.from = "run"
    /\ ret.z = "A"
    /\ ret.err = "user"

\* C18: when delegate.scheduleTask throws inside Zone.scheduleTask, the task
\* ends in state unknown, handleError is called exactly once, with the
\* zone and the error, the same error leaves scheduleTask whatever
\* handleError answers, and no counter changes.
C18_ScheduleErrorLeavesUnknown ==
    [][ (stack # <<>> /\ Top.op = "scheduleTask" /\ ret.kind = "throw") =>
          /\ task'[Top.t].state = "unknown"
          /\ Len(fx') = 1
          /\ fx'[1] = HandleErrorCall(Top.z, ret.err, fx'[1].res)
          /\ ret'.kind = "throw"
          /\ ret'.from = "scheduleTask"
          /\ ret'.err = ret.err
          /\ counts' = counts ]_vars

\* The errors of delegate.cancelTask: thrown by the hook or cancelFn, or the
\* delegate's own for a task without cancelFn.
CancelErrors == {"user", "Task is not cancelable"}

\* No zone from z up to the root defines onCancelTask.
NoCancelHook(z) ==
    \A a \in ProperAncestors(z) \cup {z} : "onCancelTask" \notin zoneSpec[a]

\* This step is a call of cancelTask.
IsCancelCall == ret.kind = "none" /\ ret'.from = "cancelTask"

\* C19: when delegate.cancelTask throws inside Zone.cancelTask, the task
\* ends in state unknown, handleError is called exactly once, with the
\* zone and the error, the error leaves cancelTask whatever handleError
\* answers, and no counter changes; cancelling, in its zone, a scheduled or
\* running task without cancelFn where no hook takes the cancel is such a
\* call.
C19_CancelErrorLeavesUnknown ==
    [][ IsCancelCall =>
          /\ (ret'.kind = "throw" /\ ret'.err \in CancelErrors) =>
                /\ task'[ret'.t].state = "unknown"
                /\ task[ret'.t].state \in {"scheduled", "running"}
                /\ Len(fx') = 1
                /\ fx'[1] = HandleErrorCall(ret'.z, ret'.err, fx'[1].res)
                /\ counts' = counts
          /\ (/\ task[ret'.t].zone = ret'.z
              /\ task[ret'.t].state \in {"scheduled", "running"}
              /\ ~task[ret'.t].cancelFn
              /\ NoCancelHook(ret'.z)) =>
                (ret'.kind = "throw" /\ ret'.err = "Task is not cancelable") ]_vars

\* cancelTask of a microTask (no cancelFn) in A, where no hook takes the
\* cancel, has thrown although onHandleError answered false; the task is in
\* state unknown and is still counted.
C19_Witness ==
    /\ ret.kind = "throw"
    /\ ret.from = "cancelTask"
    /\ ret.z = "A"
    /\ ret.err = "Task is not cancelable"
    /\ fx = <<HandleErrorCall("A", "Task is not cancelable", FALSE)>>
    /\ task[ret.t].state = "unknown"
    /\ task[ret.t].type = "microTask"
    /\ counts["A"]["microTask"] = 1

\* This step is a call of cancelScheduleRequest.
IsCancelScheduleRequest == ret.kind = "none" /\ ret'.from = "cancelScheduleRequest"

\* C20: cancelScheduleRequest returns exactly when the task is in state
\* scheduling, and then the task is notScheduled; in any other state it
\* throws and changes nothing.  When the onScheduleTask hook has called it
\* and returns, scheduleTask returns too, the task stays notScheduled, no
\* counter changes and no hasTask notification is made.
C20_CancelScheduleRequest ==
    [][ /\ IsCancelScheduleRequest =>
              /\ (ret'.kind = "return") = (task[ret'.t].state = "scheduling")
              /\ ret'.kind = "return" => task'[ret'.t].state = "notScheduled"
              /\ ret'.kind = "throw" => (task' = task /\ counts' = counts)
        /\ (/\ stack # <<>>
            /\ Top.op = "scheduleTask"
            /\ ret.kind = "return"
            /\ ret.from = "onScheduleTask"
            /\ task[Top.t].state = "notScheduled") =>
              /\ ret'.kind = "return"
              /\ ret'.from = "scheduleTask"
              /\ task'[Top.t].state = "notScheduled"
              /\ counts' = counts
              /\ fx' = <<>> ]_vars

\* scheduleTask in B has returned for a task that is notScheduled: the hook
\* called cancelScheduleRequest (the only other call made) and returned.
C20_Witness ==
    /\ ret.kind = "return"
    /\ ret.from = "scheduleTask"
    /\ ret.z = "B"
    /\ task[ret.t].state = "notScheduled"
    /\ task[ret.t].zone = "B"
    /\ calls = 2
    /\ \A d \in Zones, ty \in TaskTypes : counts[d][ty] = 0


\* In SpecReschedule no task is ever run or cancelled with cancelTask, so a
\* notScheduled task that has a zone is one whose scheduling request in that
\* zone was cancelled with cancelScheduleRequest.
RequestCancelled(t) ==
    task[t].state = "notScheduled" /\ task[t].zone # NoZone

RescheduleAccepted ==
    /\ Len(stack') > Len(stack) \/ ret'.err # "can not reschedule"
    /\ task'[ScheduleCallTask].zone = ScheduleCallZone

IsRunTaskCall ==
    /\ calls' = calls + 1
    /\ \/ stack' = stack /\ ret'.from = "runTask"
       \/ Len(stack') > Len(stack) /\ stack'[Len(stack) + 1].op = "runTask"

RunTaskCallZone ==
    IF stack' = stack THEN ret'.z ELSE stack'[Len(stack) + 1].z

RunTaskCallTask ==
    IF stack' = stack THEN ret'.t ELSE stack'[Len(stack) + 1].t

\* This step is a call of the invoke thunk whose runTask ended at once.
IsInvokeEndedAtOnce ==
    /\ calls' = calls + 1
    /\ Len(stack') = Len(stack) + 1
    /\ stack'[Len(stack')].op = "invoke"
    /\ ret'.from = "runTask"

\* C22: runTask, in the task's zone, on an eventTask that is notScheduled
\* returns at once: no callback or hook frame is entered, and the task, the
\* zone-frame stack, the current task, the counters and the queue are
\* unchanged and no hook is notified; called through the invoke thunk, the
\* only change is the thunk's own increment of runCount.
C22_CancelledEventTaskEarlyOut ==
    [][/\ (/\ IsRunTaskCall
           /\ task[RunTaskCallTask].type = "eventTask"
           /\ task[RunTaskCallTask].state = "notScheduled"
           /\ task[RunTaskCallTask].zone = RunTaskCallZone)
          => /\ stack' = stack
             /\ ret'.kind = "return"
             /\ fx' = <<>>
             /\ UNCHANGED <<task, zoneFrames, currentTask, counts, queue, armed>>
       /\ (/\ IsInvokeEndedAtOnce
           /\ task[ret'.t].type = "eventTask"
           /\ task[ret'.t].state = "notScheduled"
           /\ task[ret'.t].zone # NoZone)
          => /\ ret'.kind = "return"
             /\ fx' = <<>>
             /\ task' = [task EXCEPT ![ret'.t].runCount = @ + 1]
             /\ UNCHANGED <<zoneFrames, currentTask, counts, queue, armed>>]_vars

\* runTask has just returned at once for an eventTask that was scheduled in
\* the zone of the call and then cancelled.
C22_Witness ==
    /\ ret.kind = "return"
    /\ ret.from = "runTask"
    /\ stack = <<>>
    /\ calls = 3
    /\ task[ret.t].type = "eventTask"
    /\ task[ret.t].state = "notScheduled"
    /\ task[ret.t].zone = ret.z
    /\ task[ret.t].runCount = 0
    /\ currentTask = NoTask
    /\ zoneFrames = <<Root>>

C24_TaskErrorRoutedAndUnwound ==
    [][(/\ Top.op = "runTask"
        /\ Len(stack') < Len(stack)
        /\ ret.kind = "throw"
        /\ hist[Top.t] = "run")
       => /\ Len(HandleErrorCalls(fx')) = 1
          /\ HandleErrorCalls(fx')[1] =
                HandleErrorCall(Top.z, ret.err, HandleErrorCalls(fx')[1].res)
          /\ ret'.from = "runTask"
          /\ ret'.kind = "throw" <=> HandleErrorCalls(fx')[1].res
          /\ ret'.kind = "throw" => ret'.err = ret.err
          /\ ~ChainHandlesErrors(Top.z) => ret'.kind = "throw"
          /\ IF RunsOnce(task[Top.t])
             THEN /\ task'[Top.t].state = "notScheduled"
                  /\ task'[Top.t].runCount = 0
                  /\ delta'[Top.t] = ZeroDelta
             ELSE /\ task'[Top.t].state = "scheduled"
                  /\ counts' = counts]_vars

\* runTask in B, whose parent A defines onHandleError, has returned although
\* the callback of its one-shot task threw: the hook answered false, and the
\* task is notScheduled with its counters back at zero.
C24_Witness ==
    /\ ret.kind = "return"
    /\ ret.from = "runTask"
    /\ ret.z = "B"
    /\ ret.h = "clean"
    /\ RunsOnce(task[ret.t])
    /\ task[ret.t].state = "notScheduled"
    /\ task[ret.t].runCount = 0
    /\ delta[ret.t] = ZeroDelta
    /\ HandleErrorCalls(fx) = <<HandleErrorCall("B", "user", FALSE)>>

\* C25: a microTask that one completed scheduleTask has put in the queue,
\* and on which nothing has been done since, stays a task the drain will
\* run: whatever the program does next, the task is still scheduled, or
\* running because its one run has begun; it is never made notScheduled,
\* canceling or unknown, the states in which the drain's runTask fails and
\* the callback is never invoked.
C25_ScheduledMicroTaskStaysRunnable ==
    [][\A t \in DOMAIN task :
          (/\ task[t].type = "microTask"
           /\ task[t].state = "scheduled"
           /\ hist[t] = "sched"
           /\ \E i \in DOMAIN order : order[i] = t)
          => task'[t].state \in {"scheduled", "running"}]_vars

\* This step enters runTask for a task, called by user code or by the drain
\* (one new runTask frame at the top of the caller's frames), or through the
\* invoke thunk (an invoke frame and a runTask frame).
RunTaskEntered(t) ==
    /\ Len(stack') > Len(stack)
    /\ stack'[Len(stack) + 1].op = "runTask"
    /\ stack'[Len(stack) + 1].t = t

ThunkEntered(t) ==
    /\ Len(stack') > Len(stack) + 1
    /\ stack'[Len(stack) + 1].op = "invoke"
    /\ stack'[Len(stack) + 2].op = "runTask"
    /\ stack'[Len(stack) + 2].t = t

C27_AtMostOneDrainArmed == armed <= 1

DrainFrames(stk) == {i \in DOMAIN stk : stk[i].op = "drain"}

\* C28: when the finally block of an outermost invoke thunk calls
\* drainMicroTaskQueue while a drain is in progress, the call does nothing:
\* the thunk returns at once, no second drain is entered, no task is taken
\* from the queue or run, the drain is not reported done and the draining
\* flag stays set; at any time at most one drain is on the call stack, and
\* it is that drain which takes the queued tasks.
C28_DrainNotReentrant ==
    [][/\ (/\ Top.op = "invoke"
           /\ Top.pc = "run"
           /\ ret.kind # "none"
           /\ nested = 1
           /\ draining)
          => /\ stack' = Pop(stack)
             /\ ret'.from = "invoke"
             /\ draining'
             /\ UNCHANGED <<task, queue, order, counts, zoneFrames, currentTask,
                            armed>>
       /\ Cardinality(DrainFrames(stack')) <= 1
       /\ DrainFrames(stack') # {} => draining'
       /\ (draining /\ ~draining')
          => /\ Top.op = "drain"
             /\ ret'.from = "drain"
             /\ queue = <<>>
       /\ (order # <<>> /\ order' = Tail(order)) => Top.op = "drain"]_vars

\* During the host's drain the callback of a microtask has called the invoke
\* thunk of another task; the thunk has returned without draining although
\* it was the outermost task frame and the queue is not empty.
C28_Witness ==
    /\ Len(stack) = 3
    /\ stack[1].op = "drain"
    /\ Top.op = "callback"
    /\ ret.kind = "return"
    /\ ret.from = "invoke"
    /\ draining
    /\ nested = 0
    /\ queue # <<>>

UnhandledErrorCalls(effects) ==
    SelectSeq(effects, LAMBDA e : e.ev = "onUnhandledError")

\* C29: when runTask of a microtask has thrown into the drain, the drain
\* passes that error to onUnhandledError once and goes on: if a microtask is
\* waiting, the drain calls runTask for the one enqueued first, otherwise it
\* ends by returning; no drain ever ends by throwing, and onUnhandledError is
\* called by no other step and for no other outcome.
C29_DrainErrorUnhandledAndDrainGoesOn ==
    [][/\ (Top.op = "drain" /\ ret.kind = "throw")
          => /\ UnhandledErrorCalls(fx')
                   = <<[E0 EXCEPT !.ev = "onUnhandledError", !.err = ret.err]>>
             /\ IF order # <<>>
                THEN /\ DrainTakes
                     /\ TakenByDrain = Head(order)
                     /\ order' = Tail(order)
                     /\ draining'
                     /\ ret'.from \in {Null, "runTask", "hook"}
                ELSE /\ stack' = Pop(stack)
                     /\ ret' = Returned("drain", Null, NoTask)
       /\ UnhandledErrorCalls(fx') # <<>>
          => (Top.op = "drain" /\ ret.kind = "throw")
       /\ ret'.from = "drain" => ret'.kind = "return"]_vars

\* The first microtask of the drain threw, the error went to
\* onUnhandledError, and the callback of the second microtask is running in
\* the same drain.
C29_Witness ==
    /\ Len(stack) = 3
    /\ stack[1].op = "drain"
    /\ stack[1].i = 3
    /\ stack[2].op = "runTask"
    /\ Top.op = "callback"
    /\ ret.kind = "none"
    /\ fx = <<[E0 EXCEPT !.ev = "onUnhandledError", !.err = "user"]>>
    /\ task[stack[1].q[1]].state = "notScheduled"
    /\ task[Top.t].state = "running"

\* C30: a cancelTask issued, in the task's zone and through the default
\* cancel path (no zone of the chain defines onCancelTask), on a
\* non-periodic macroTask that is running fails with 'Task is not
\* cancelable', whether or not the task carries a data bag.
C30_OneShotMacroTaskNotCancelableMidRun ==
    [][(/\ IsCancelCall
        /\ task[ret'.t].type = "macroTask"
        /\ ~task[ret'.t].isPeriodic
        /\ task[ret'.t].state = "running"
        /\ task[ret'.t].zone = ret'.z
        /\ NoCancelHook(ret'.z))
       => /\ ret'.kind = "throw"
          /\ ret'.err = "Task is not cancelable"]_vars

\* The zones from z up to the root whose spec defines hook h.
Defining(h, z) ==
    {a \in ProperAncestors(z) \cup {z} : h \in zoneSpec[a]}

\* C31: a delegate method called on zone Z for hook h calls the hook of the
\* zone nearest to Z, on the path from Z to the root, whose spec defines h,
\* with the delegate of that zone's parent as parentZoneDelegate and Z as
\* targetZone; when no zone of the path defines h it takes the default
\* action and calls no hook.
C31_NearestDefiningZoneHandles ==
    ret.from \in Hooks =>
       LET c == fx[1]
           defs == Defining(ret.from, ret.z)
       IN  /\ Len(fx) = 1
           /\ c.ev = ret.from
           /\ c.target = ret.z
           /\ IF defs = {} THEN c.spec = Null
              ELSE /\ c.spec \in defs
                   /\ \A b \in defs : b \in ProperAncestors(c.spec) \cup {c.spec}
                   /\ c.dlgt = ZoneParent(c.spec)

\* cancelTask on D, three levels down: B, which only defines onHasTask, and
\* D forward the call, and the onCancelTask hook of A is called with the
\* root's delegate and target D.
C31_Witness ==
    /\ ret.from = "onCancelTask"
    /\ ret.z = "D"
    /\ zoneSpec["A"] = {"onCancelTask"}
    /\ zoneSpec["B"] = {"onHasTask"}
    /\ zoneSpec["D"] = {}
    /\ fx = <<[H0 EXCEPT !.ev = "onCancelTask", !.spec = "A", !.dlgt = "R",
                         !.curr = "A", !.target = "D"]>>

\* C32: the currentZone argument of every hook call is the zone whose spec
\* defines the hook.
C32_CurrentZoneIsDefiningZone ==
    (ret.from \in Hooks /\ fx[1].spec # Null) => fx[1].curr = fx[1].spec

(***************************************************************************)
(* Counting below a zone that defines onHasTask.                           *)
(***************************************************************************)
\* The zones from z up to the last one that has a zone defining onHasTask
\* at or above it.
CountingPath(z) ==
    {a \in {z} \cup ProperAncestors(z) :
        \E h \in {a} \cup ProperAncestors(a) : "onHasTask" \in zoneSpec[h]}

OnCountingPath(z, d, ty, type) ==
    IF d \in CountingPath(z) /\ ty = type THEN 1 ELSE 0

\* C33: with onHasTask defined by a zone H and no task hook defined below it,
\* a task scheduled in a descendant Z of H is registered once with the
\* delegate of each zone from Z up to H and with no other, the counter of its
\* type goes up by exactly 1 on each of them when it is scheduled, and down by
\* exactly 1 on each of them when it is cancelled or completes.
C33_CountedFromTargetUpToHasTaskZone ==
    [][/\ (/\ Top.op = "scheduleTask" /\ Len(stack') < Len(stack)
           /\ ret'.kind = "return" /\ ret'.h = "clean")
          => LET t == ret'.t
                 z == task'[t].zone
             IN  /\ z = ret'.z
                 /\ \A d \in DeepZones :
                       Registered(task'[t].zd.items, d)
                           = IF d \in CountingPath(z) THEN 1 ELSE 0
                 /\ \A d \in DeepZones, ty \in TaskTypes :
                       counts'[d][ty] = counts[d][ty]
                           + OnCountingPath(z, d, ty, task'[t].type)
       /\ (\/ /\ IsCancelCall /\ ret'.kind = "return" /\ ret'.h = "clean"
           \/ /\ Top.op = "runTask" /\ Len(stack') < Len(stack)
              /\ ret'.kind # "none" /\ ret'.h = "clean"
              /\ RunsOnce(task'[ret'.t]))
          => LET t == ret'.t
                 z == task[t].zone
             IN  \A d \in DeepZones, ty \in TaskTypes :
                    counts'[d][ty] = counts[d][ty]
                        - OnCountingPath(z, d, ty, task[t].type)]_vars

C33_Witness ==
    /\ CleanExit({"cancelTask"})
    /\ ret.kind = "return"
    /\ task[ret.t].zone = "D"
    /\ Len(HasTaskCalls(fx)) = 3
    /\ \A d \in {"D", "B", "A"} : counts[d][task[ret.t].type] = 0
    /\ \E i \in 1..Len(fx) : fx[i].z = "B" /\ fx[i].prev = 1 /\ fx[i].next = 0

\* The step notified an onHasTask hook that throws.
HasTaskHookThrew ==
    /\ ThrowingOnHasTask \in zoneSpec["A"]
    /\ HasTaskCalls(fx') # <<>>

\* The errors of the counter update and of the transition after it.
UpdateErrors ==
    {"More tasks executed then were scheduled.", "TypeError", "transition"}

\* C34: when an onHasTask hook throws while a counter update notifies it,
\* the error goes to handleError of the delegate of the zone that defines
\* the hook, with the notification's target zone, and to nobody else: the
\* scheduleTask, cancelTask or runTask call does not throw it; and unless the
\* update itself fails (a counter below zero), every delegate of the task's
\* list has its counter updated, scheduleTask and cancelTask return and the
\* task is scheduled after scheduleTask and notScheduled after cancelTask or
\* the run of a one-shot task.
C34_HasTaskErrorIsCaught ==
    [][HasTaskHookThrew
       => /\ \A i \in 1..Len(fx') :
                fx'[i].ev = "hasTask"
                => /\ i < Len(fx')
                   /\ fx'[i + 1].ev = "handleError"
                   /\ fx'[i + 1].err = HasTaskError
                   /\ fx'[i + 1].z = fx'[i].z
                   /\ fx'[i + 1].change = "A"
          /\ ret'.kind # "none"
          /\ ret'.from \in {"scheduleTask", "cancelTask", "runTask"}
          /\ ret'.err # HasTaskError
          /\ ret'.err \notin UpdateErrors
             => LET t == ret'.t
                    up == ret'.from = "scheduleTask"
                    items == IF up THEN task'[t].zd.items ELSE task[t].zd.items
                IN  /\ items # <<>>
                    /\ \A d \in DeepZones, ty \in TaskTypes :
                          counts'[d][ty] = counts[d][ty]
                             + (IF ty # task[t].type THEN 0
                                ELSE IF up THEN Registered(items, d)
                                ELSE 0 - Registered(items, d))
                    /\ ret'.from \in {"scheduleTask", "cancelTask"}
                       => ret'.kind = "return"
                    /\ ret'.from = "runTask" /\ ret'.kind = "throw"
                       => ret.kind = "throw" /\ ret'.err = ret.err
                    /\ up => task'[t].state = "scheduled"
                    /\ ret'.from = "cancelTask" \/ Top.guard
                       => task'[t].state = "notScheduled"]_vars

C34_Witness ==
    /\ ThrowingOnHasTask \in zoneSpec["A"]
    /\ ret.kind = "return"
    /\ ret.from = "scheduleTask"
    /\ ret.z = "D"
    /\ task[ret.t].state = "scheduled"
    /\ Len(fx) = 6
    /\ fx[1].ev = "hasTask" /\ fx[1].z = "D"
    /\ fx[2].ev = "handleError" /\ fx[2].err = HasTaskError
    /\ \A d \in {"D", "B", "A"} : counts[d][task[ret.t].type] = 1

\* The onHasTask calls of the step: the zone whose hook is called and the
\* targetZone argument, in call order.
HasTaskHookCalls(effects) ==
    [i \in 1..Len(HasTaskCalls(effects)) |->
        <<HasTaskHook(zoneSpec, HasTaskCalls(effects)[i].z),
          HasTaskCalls(effects)[i].z>>]

ScheduledFirstIn(z) ==
    /\ Top.op = "scheduleTask" /\ Len(stack') < Len(stack)
    /\ ret'.kind = "return" /\ ret'.h = "clean"
    /\ task'[ret'.t].zone = z
    /\ counts[z][task'[ret'.t].type] = 0

CancelledLastIn(z) ==
    /\ IsCancelCall /\ ret'.kind = "return" /\ ret'.h = "clean"
    /\ task[ret'.t].zone = z
    /\ counts[z][task[ret'.t].type] = 1

\* C40 as stated: with onHasTask defined by A and no hook defined by its
\* child B, scheduling the first task of a type in B calls A's onHasTask
\* exactly twice, with target B and then with target A, and so does
\* cancelling that task.
C40_TwoNotificationsPerFirstTask ==
    [][(ScheduledFirstIn("B") \/ CancelledLastIn("B"))
       => HasTaskHookCalls(fx') = << <<"A", "B">>, <<"A", "A">> >>]_vars

\* C40, amended: the second call, with target A, is made only when A's own
\* counter of the type crosses zero in the same update, that is when A counts
\* no other task of the type (scheduled in A itself or elsewhere below A);
\* otherwise A's onHasTask is called once, with target B.
C40_TwoNotificationsWhenParentCountCrossesZero ==
    [][/\ ScheduledFirstIn("B")
          => HasTaskHookCalls(fx')
                = IF counts["A"][task'[ret'.t].type] = 0
                  THEN << <<"A", "B">>, <<"A", "A">> >>
                  ELSE << <<"A", "B">> >>
       /\ CancelledLastIn("B")
          => HasTaskHookCalls(fx')
                = IF counts["A"][task[ret'.t].type] = 1
                  THEN << <<"A", "B">>, <<"A", "A">> >>
                  ELSE << <<"A", "B">> >>]_vars

C40_Witness ==
    /\ CleanExit({"cancelTask"})
    /\ ret.kind = "return"
    /\ task[ret.t].zone = "B"
    /\ Len(HasTaskCalls(fx)) = 2
    /\ HasTaskCalls(fx)[1].z = "B" /\ HasTaskCalls(fx)[1].next = 0
    /\ HasTaskCalls(fx)[2].z = "A" /\ HasTaskCalls(fx)[2].next = 0
    /\ HasTaskHook(zoneSpec, "B") = "A"

\* C35: when a call of Zone.runTask has returned or thrown, Zone.currentTask
\* is the task it was immediately before the call, at any depth of nesting.
C35_CurrentTaskRestored ==
    (ret.kind # "none" /\ ret.from = "runTask") => currentTask = ret.ect

\* The task a call of the zone API is made on.
CallTarget ==
    IF stack' = stack THEN ret'.t ELSE stack'[Len(stack) + 1].t

TaskCalls == {"scheduleTask", "runTask", "cancelTask", "cancelScheduleRequest"}

\* The step is a call of Zone.scheduleTask, Zone.runTask, Zone.cancelTask,
\* task.cancelScheduleRequest or of the invoke thunk (and not a call that a
\* hook makes on the parent delegate).
IsTaskCall ==
    /\ calls' = calls + 1
    /\ \/ stack' = stack /\ ret'.from \in TaskCalls
       \/ /\ Len(stack') > Len(stack)
          /\ stack'[Len(stack) + 1].op \in {"scheduleTask", "runTask", "invoke"}

\* C36: a task in state unknown stays in state unknown, and every call of
\* scheduleTask, runTask (also through the invoke thunk), cancelTask and
\* cancelScheduleRequest on it throws at once and changes no counter.
C36_UnknownIsAbsorbing ==
    [][\A t \in Tasks :
          task[t].state = "unknown"
          => /\ task'[t].state = "unknown"
             /\ (IsTaskCall /\ CallTarget = t)
                => /\ ret'.kind = "throw"
                   /\ ret'.from \in TaskCalls
                   /\ ret'.t = t
                   /\ counts' = counts
                   /\ stack' = stack \/ IsInvokeEndedAtOnce]_vars

C36_Witness ==
    /\ ret.kind = "throw"
    /\ ret.from = "runTask"
    /\ ret.err = "transition"
    /\ task[ret.t].state = "unknown"
    /\ \E d \in Zones : counts[d][task[ret.t].type] > 0

\* The tasks of type ty in state scheduled whose list holds delegate d.
ScheduledTasksOf(d, ty) ==
    {t \in Tasks : /\ task[t].type = ty
                   /\ task[t].state = "scheduled"
                   /\ Registered(task[t].zd.items, d) > 0}

\* C38: when no zone operation is in progress, the counter of each delegate
\* for each task type is the number of tasks of the type in state scheduled
\* that registered the delegate (so a task that is notScheduled or unknown is
\* counted by nobody).
C38_CounterIsNumberOfScheduledTasks ==
    (stack = <<>> /\ ret.kind = "none")
    => \A d \in Zones, ty \in TaskTypes :
          counts[d][ty] = Cardinality(ScheduledTasksOf(d, ty))

(***************************************************************************)
(* The microtask queue at the host.                                        *)
(***************************************************************************)
AtHost == stack = <<>> /\ nested = 0 /\ ~draining

\* C37: whenever control is back at the host, with no task frame open and no
\* drain in progress, and the microtask queue is not empty, a drain trigger
\* is armed, so that the queued microtasks will be taken and run; also for a
\* microtask enqueued by the microtaskDrainDone hook.
C37_QueuedMicroTaskHasTrigger ==
    (AtHost /\ queue # <<>>) => armed > 0

(***************************************************************************)
(* One drain from its start to its end.                                    *)
(***************************************************************************)
DrainDoneCalls(effects) ==
    SelectSeq(effects, LAMBDA e : e.ev = DrainDoneHook)

\* A step of the drain loop itself, not of the code it calls.
DrainSteps == Top.op = "drain" /\ Top.pc # "done"

DrainEnds == draining /\ ~draining'

=============================================================================
